---- MODULE Spec2Model ----
(***************************************************************************)
(* Transcript ingestion of meet_agent: the append-only transcript store    *)
(* (query/query.txt), its writers (BrowserService.processTranscript,       *)
(* QueryService.saveQuery, QueryService.clearQueries), the file watcher    *)
(* (WatcherService) with its processed offset and re-entrancy flag, and    *)
(* the three producers that start an orchestration                         *)
(* (QueryService.processQuery).                                            *)
(*                                                                         *)
(* The store is measured in blocks: an entry is a header block followed by *)
(* len-1 text blocks, so a byte offset of the file is a block offset here. *)
(* Every await of the code is a step boundary; code between two awaits is  *)
(* one action.                                                             *)
(***************************************************************************)
EXTENDS Integers, Sequences, FiniteSets, TLC

\* ------------------------------------------------------------------ bounds
\* The most entries ever appended to the file.
MaxAppends == 2

\* The most blocks the file holds at a time.
MaxBlocks == MaxAppends

\* The most advances of the clock.
MaxTicks == 5

\* The most expiry timers pending at a time.
MaxPending == 2
\* The most matches a search returns.
MaxMatches == 3

\* AudioService.feedbackPreventionDelay and AudioService.responseTimeout, in
\* milliseconds.
FeedbackPreventionDelay == 1000
ResponseTimeout == 30000

VARIABLES
    store,              \* query.txt: the sequence of entries it holds
    nextId,             \* identity of the next entry (its timestamp and text)
    truncated,          \* clearQueries has been called
    lastProcessedSize,  \* WatcherService.lastProcessedSize
    isProcessing,       \* WatcherService.isProcessing
    initialized,        \* WatcherService.initialized
    watcher,            \* WatcherService.watcher is set (chokidar is watching)
    cycle,              \* the processNewContent call of each entry point
    orchs,              \* processQuery runs started by the watcher: those of
                        \* the latest processContent call of each entry point
    direct,             \* processQuery runs started by saveQuery or by the
                        \* audio callback in the last step
    now,                \* Date.now(), in milliseconds
    ticks,              \* advances of the clock so far
    isPlayingTTS,       \* AudioService.isPlayingTTS
    lastTTSEndTime,     \* AudioService.lastTTSEndTime
    recentResponses,    \* AudioService.recentResponses
    timeouts,           \* the pending setTimeout callbacks of storeResponse
    ttsCall,            \* the last call of setTTSState: its argument and time
    inserted,           \* the time of the last storeResponse of each clean text
    verdict,            \* the shouldProcessAudio call of the last step
    procs,              \* the processQuery call of each QueryService
    archive,            \* query/analysis: the records saveAnalysis has written
    appended,           \* the entries written by TranscriptStore.append: their
                        \* format and finality
    searched,           \* the processSearchResults call of the last step
    written,            \* the entries written to a query.txt of its own, each
                        \* with the utterance it was written for
    appendCall,         \* the saveQuery or processTranscript call of the last
                        \* step: its text and what became of it
    listed,             \* the last getAnalyses call: the files there were and
                        \* what it returned
    host,               \* the process of MeetAgent: where start and cleanup
                        \* are, its timers, whether it has exited
    changes             \* the 'change' events of chokidar: the entries whose
                        \* event is to be delivered, and those whose event
                        \* the handler has skipped

vars == << store, nextId, truncated, lastProcessedSize, isProcessing,
          initialized, watcher, cycle, orchs, direct, now, ticks, isPlayingTTS,
          lastTTSEndTime, recentResponses, timeouts, ttsCall, inserted,
          verdict, procs, archive, appended, searched, written,
          appendCall, listed, host, changes >>

storeVars == << store, nextId, truncated >>
watcherVars == << lastProcessedSize, isProcessing, initialized, watcher,
                  cycle >>
ingestVars == << storeVars, watcherVars, orchs, direct >>
clockVars == << now, ticks >>
guardVars == << isPlayingTTS, lastTTSEndTime, recentResponses, timeouts,
                ttsCall, inserted, verdict >>
sideVars == << searched, written, appendCall, listed, host, changes >>
procVars == << procs, archive, appended, sideVars >>
pipeVars == << clockVars, guardVars, procVars >>

\* The QueryService instances: that of MeetAgent (the audio callback calls its
\* processQuery), that of WatcherService, and one a client constructs with
\* speech output disabled and connects to the AudioService.
Services == {"agent", "watcher", "client"}

\* The processQuery calls on the QueryService of WatcherService: that for the
\* first entry of the store and that for the second.
WatcherRuns == {"watcher", "watcher2"}

\* The processQuery calls the model follows.
Calls == Services \cup WatcherRuns

\* The entry whose processing makes the call.
EntryOf(s) == IF s = "watcher" THEN 1 ELSE IF s = "watcher2" THEN 2 ELSE 0

NoRun == [pc |-> "idle", text |-> << >>, guard |-> "none", reply |-> << >>,
          type |-> "none", ctx |-> "none", ans |-> << >>, result |-> "none",
          calls |-> {}]

\* ------------------------------------------------------------- the store
Finalities == {"FINAL", "INTERIM"}

\* The entry points of processNewContent: the initial call of startWatching
\* and the 'change' handler.
Slots == {"init", "chg"}

\* hdr is what the parsers' pattern extracts from the first line of the entry:
\* the finality tag, or "NOMATCH" when the first line does not match;
\* "ONELINE" stands for an entry of one line, whatever that line is.
Entry(id, hdr, len) == [id |-> id, hdr |-> hdr, len |-> len]

RECURSIVE SizeOf(_)
SizeOf(s) == IF s = << >> THEN 0 ELSE Head(s).len + SizeOf(Tail(s))

StartOf(s, i) == SizeOf(SubSeq(s, 1, i - 1))
EndOf(s, i) == StartOf(s, i) + s[i].len

\* firstLine.match(/\[(.*?)\] \[(FINAL|INTERIM)\] \(confidence: ([\d.]+)%\)/)
\* on the first line BrowserService.processTranscript writes,
\* `[<ts>] [FINAL]` followed by ` (confidence: <c>%)` only when the confidence
\* is truthy.
TranscriptHeader(isFinal, confidence) ==
    IF confidence THEN (IF isFinal THEN "FINAL" ELSE "INTERIM") ELSE "NOMATCH"

\* The same match on the first line QueryService.saveQuery writes: the
\* timestamp alone, the tag and the confidence being on the second line.
QueryHeader(isFinal, confidence) == "NOMATCH"

\* ---------------------------------------------------------- the parsers
HeaderMatches(e) == e.hdr \in Finalities

\* QueryService.getMostRecentTranscript: the last entry of the whole file whose
\* header matches with finality FINAL; 0 stands for null.
RECURSIVE MostRecentFinal(_)
MostRecentFinal(s) ==
    IF s = << >> THEN 0
    ELSE LET e == s[Len(s)]
         IN IF HeaderMatches(e) /\ e.hdr = "FINAL"
            THEN e.id
            ELSE MostRecentFinal(SubSeq(s, 1, Len(s) - 1))

FinalityOf(s, id) ==
    IF \E i \in 1..Len(s) : s[i].id = id
    THEN (CHOOSE e \in {s[i] : i \in 1..Len(s)} : e.id = id).hdr
    ELSE "NOMATCH"

\* fileHandle.read(buffer, 0, n, pos) followed by split('\n\n'): the part of
\* each entry that lies in [pos, pos+n). head: the piece holds the header
\* block; whole: the piece holds the entire entry.
RECURSIVE PiecesFrom(_, _, _, _)
PiecesFrom(s, i, pos, n) ==
    IF i > Len(s) THEN << >>
    ELSE LET a == StartOf(s, i)
             b == EndOf(s, i)
             rest == PiecesFrom(s, i + 1, pos, n)
         IN IF (IF a > pos THEN a ELSE pos) < (IF b < pos + n THEN b ELSE pos + n)
            THEN << [e |-> s[i],
                     head |-> (pos <= a /\ a < pos + n),
                     whole |-> (pos <= a /\ b <= pos + n)] >> \o rest
            ELSE rest

Pieces(s, pos, n) == PiecesFrom(s, 1, pos, n)

\* entry.split('\n').length >= 2
HasTwoLines(e) == e.hdr # "ONELINE"

\* An entry of two lines or more whose header matches, whatever its finality.
IsParsedPiece(p) == p.head /\ HasTwoLines(p.e) /\ HeaderMatches(p.e)

\* WatcherService.processContent, per entry: lines.length >= 2, the header
\* matches, and finality === 'FINAL'.
IsFinalPiece(p) == IsParsedPiece(p) /\ p.e.hdr = "FINAL"

\* A processContent that gives up at the first entry it cannot parse.
RECURSIVE TriggersUntilMalformed(_)
TriggersUntilMalformed(content) ==
    IF content = << >> \/ ~IsParsedPiece(Head(content)) THEN << >>
    ELSE (IF IsFinalPiece(Head(content))
          THEN << [id |-> Head(content).e.id, fin |-> Head(content).e.hdr] >>
          ELSE << >>)
         \o TriggersUntilMalformed(Tail(content))

\* The entries of a delta that reach the call of queryWithRecentTranscript.
RECURSIVE FinalTriggers(_)
FinalTriggers(content) ==
    IF content = << >> THEN << >>
    ELSE (IF IsFinalPiece(Head(content))
          THEN << [id |-> Head(content).e.id, fin |-> Head(content).e.hdr] >>
          ELSE << >>)
         \o FinalTriggers(Tail(content))

Idle == [pc |-> "idle", from |-> 0, cur |-> 0, len |-> 0, pos |-> 0,
         reset |-> FALSE, content |-> << >>]

\* No 'change' event is to be delivered and none has been skipped.
NoChanges == [pending |-> {}, skipped |-> {}]

\* The process before MeetAgent.start is called.
NoHost == [start |-> "idle", indexName |-> TRUE, isShuttingDown |-> FALSE,
           isRecording |-> FALSE, watching |-> FALSE, cleanup |-> "none",
           caller |-> "none", steps |-> << >>, rejected |-> FALSE,
           bodies |-> 0,
           signalAt |-> 0, again |-> FALSE, timers |-> {},
           exited |-> FALSE]

\* ------------------------------------------------------------------ Init
Init ==
    /\ store = << >>
    /\ nextId = 1
    /\ truncated = FALSE
    /\ lastProcessedSize = 0
    /\ isProcessing = FALSE
    /\ initialized = FALSE
    /\ watcher = FALSE
    /\ cycle = [s \in Slots |-> Idle]
    /\ orchs = << >>
    /\ direct = {}
    /\ now = FeedbackPreventionDelay
    /\ ticks = 0
    /\ isPlayingTTS = FALSE
    /\ lastTTSEndTime = 0
    /\ recentResponses = {}
    /\ timeouts = {}
    /\ ttsCall = << >>
    /\ inserted = {}
    /\ verdict = << >>
    /\ procs = [s \in Calls |-> NoRun]
    /\ archive = << >>
    /\ appended = << >>
    /\ searched = << >>
    /\ written = << >>
    /\ appendCall = << >>
    /\ listed = << >>
    /\ host = NoHost
    /\ changes = NoChanges

\* --------------------------------------------------------------- writers
\* BrowserService.processTranscript(transcript, confidence, isFinal) with a
\* non-empty transcript: only final transcripts are appended to query.txt.
AppendTranscript(isFinal, confidence, len) ==
    /\ nextId <= MaxAppends
    /\ SizeOf(store) + len <= MaxBlocks
    /\ IF isFinal
       THEN /\ store' = Append(store, Entry(nextId,
                                   TranscriptHeader(isFinal, confidence), len))
            /\ nextId' = nextId + 1
       ELSE UNCHANGED << store, nextId >>
    /\ direct' = {}
    /\ UNCHANGED << truncated, orchs >>
    /\ UNCHANGED watcherVars

ProcessTranscript(isFinal, confidence, len) ==
    /\ AppendTranscript(isFinal, confidence, len)
    /\ UNCHANGED pipeVars

\* TranscriptStore.append: an utterance of either finality in the log format
\* the parsers accept.
AppendUtterance(fin, len) ==
    /\ nextId <= MaxAppends
    /\ SizeOf(store) + len <= MaxBlocks
    /\ nextId' = nextId + 1
    /\ store' = Append(store, Entry(nextId, fin, len))
    /\ direct' = {}
    /\ UNCHANGED << truncated, orchs >>
    /\ UNCHANGED watcherVars
    /\ UNCHANGED pipeVars

\* QueryService.queryWithRecentTranscript up to its call of processQuery, once
\* per trigger: each run is started on the most recent FINAL entry of the file
\* as it is now, and none is started when there is no such entry.
RECURSIVE StartRuns(_, _)
StartRuns(s, trigs) ==
    IF trigs = << >> \/ MostRecentFinal(s) = 0 THEN << >>
    ELSE << [trig |-> Head(trigs).id, tfin |-> Head(trigs).fin,
             utt |-> MostRecentFinal(s),
             fin |-> FinalityOf(s, MostRecentFinal(s))] >>
         \o StartRuns(s, Tail(trigs))

\* QueryService.saveQuery(text, confidence, isFinal) with a valid text.
AppendQuery(isFinal, confidence, len) ==
    /\ nextId <= MaxAppends
    /\ SizeOf(store) + len <= MaxBlocks
    /\ nextId' = nextId + 1
    /\ store' = Append(store, Entry(nextId, QueryHeader(isFinal, confidence), len))
    /\ LET started == IF isFinal
                      THEN StartRuns(store', << [id |-> nextId, fin |-> "FINAL"] >>)
                      ELSE << >>
       IN direct' = {[src |-> "saveQuery", utt |-> started[i].utt,
                      fin |-> started[i].fin] : i \in 1..Len(started)}
    /\ UNCHANGED << truncated, orchs >>
    /\ UNCHANGED watcherVars

SaveQuery(isFinal, confidence, len) ==
    /\ AppendQuery(isFinal, confidence, len)
    /\ UNCHANGED pipeVars

\* QueryService.clearQueries (also BrowserService.cleanup): full truncation.
ClearQueries ==
    /\ truncated' = TRUE
    /\ store' = << >>
    /\ direct' = {}
    /\ UNCHANGED << nextId, orchs >>
    /\ UNCHANGED watcherVars
    /\ UNCHANGED pipeVars

\* MeetAgent.start, the callback given to audioService.startRecording, called
\* with the non-empty transcript of utterance u, the one last written to the
\* store.
AudioCallback(u, isFinal) ==
    /\ u = nextId - 1
    /\ u >= 1
    /\ direct' = IF isFinal
                 THEN {[src |-> "audio", utt |-> u,
                        fin |-> IF isFinal THEN "FINAL" ELSE "INTERIM"]}
                 ELSE {}
    /\ UNCHANGED orchs
    /\ UNCHANGED storeVars
    /\ UNCHANGED watcherVars
    /\ UNCHANGED pipeVars

\* --------------------------------------------------------------- watcher
\* WatcherService.initialize: the offset starts at the current file size.
Initialize ==
    /\ ~initialized
    /\ lastProcessedSize' = SizeOf(store)
    /\ initialized' = TRUE
    /\ UNCHANGED << isProcessing, watcher, cycle >>
    /\ direct' = {}
    /\ UNCHANGED orchs
    /\ UNCHANGED storeVars
    /\ UNCHANGED pipeVars

\* WatcherService.processNewContent from its call to the first await
\* (fs.promises.open), or to its return when there is nothing new.
\* guarded: the call is made by the 'change' handler, which holds isProcessing
\* until the call settles.
BeginCycle(slot, guarded) ==
    LET currentSize == SizeOf(store)
        shrunk == currentSize < lastProcessedSize
        offset == IF shrunk THEN 0 ELSE lastProcessedSize
    IN /\ lastProcessedSize' = offset
       /\ IF currentSize <= offset
          THEN /\ cycle' = cycle
               /\ isProcessing' = isProcessing
          ELSE /\ cycle' = [cycle EXCEPT ![slot] =
                               [pc |-> "open", from |-> offset,
                                cur |-> currentSize,
                                len |-> currentSize - offset, pos |-> 0,
                                reset |-> shrunk, content |-> << >>]]
               /\ isProcessing' = IF guarded THEN TRUE ELSE isProcessing

\* WatcherService.startWatching after initialize: creates the chokidar
\* watcher, registers the handler, then processes existing content when the
\* file is not empty.
StartWatching ==
    /\ initialized
    /\ ~watcher
    /\ watcher' = TRUE
    /\ IF SizeOf(store) > 0
       THEN BeginCycle("init", FALSE)
       ELSE UNCHANGED << lastProcessedSize, isProcessing, cycle >>
    /\ direct' = {}
    /\ UNCHANGED << initialized, orchs >>
    /\ UNCHANGED storeVars
    /\ UNCHANGED pipeVars

\* The 'change' handler registered by startWatching: it returns at once
\* while isProcessing is set.
ChangeHandler ==
    /\ watcher
    /\ IF isProcessing
       THEN UNCHANGED << lastProcessedSize, isProcessing, cycle >>
       ELSE BeginCycle("chg", TRUE)
    /\ direct' = {}
    /\ UNCHANGED << initialized, watcher, orchs >>
    /\ UNCHANGED storeVars

\* A 'change' event, whenever chokidar emits one.
ChangeNotification ==
    /\ ChangeHandler
    /\ UNCHANGED pipeVars

\* fs.promises.open resolves; the position argument of fileHandle.read is
\* this.lastProcessedSize as it is now.
OpenDone(slot) ==
    /\ cycle[slot].pc = "open"
    /\ cycle' = [cycle EXCEPT ![slot].pc = "read",
                              ![slot].pos = lastProcessedSize]
    /\ UNCHANGED << lastProcessedSize, isProcessing, initialized, watcher >>
    /\ direct' = {}
    /\ UNCHANGED orchs
    /\ UNCHANGED storeVars
    /\ UNCHANGED pipeVars

\* fileHandle.read resolves with the bytes the file holds now.
ReadDone(slot) ==
    /\ cycle[slot].pc = "read"
    /\ cycle' = [cycle EXCEPT ![slot].pc = "close",
                              ![slot].content =
                                  Pieces(store, cycle[slot].pos, cycle[slot].len)]
    /\ UNCHANGED << lastProcessedSize, isProcessing, initialized, watcher >>
    /\ direct' = {}
    /\ UNCHANGED orchs
    /\ UNCHANGED storeVars
    /\ UNCHANGED pipeVars

\* A handler that leaves the flag as it is.
FlagLeftSet(slot) == FALSE

\* The finally of the 'change' handler runs when the processNewContent call
\* of this entry point settles: the call startWatching makes itself is outside
\* the handler.
FinallyClears(slot) == slot = "chg"

\* The end of a processNewContent call: the handler's finally clears the
\* flag; the initial call of startWatching never touches it.
EndCycle(slot, newOffset) ==
    /\ cycle' = [cycle EXCEPT ![slot] = Idle]
    /\ lastProcessedSize' = newOffset
    /\ isProcessing' = IF FinallyClears(slot) THEN FALSE ELSE isProcessing

\* open or read rejects: the catch of processNewContent logs, the offset
\* stays.
ReadError(slot) ==
    /\ cycle[slot].pc \in {"open", "read"}
    /\ EndCycle(slot, lastProcessedSize)
    /\ UNCHANGED << initialized, watcher >>
    /\ direct' = {}
    /\ UNCHANGED orchs
    /\ UNCHANGED storeVars
    /\ UNCHANGED pipeVars

\* fileHandle.close resolves and processContent runs to its Promise.all: every
\* FINAL entry of the delta calls queryWithRecentTranscript. When no run is
\* pending the Promise.all resolves at once and the offset is advanced to the
\* snapshot.
ProcessContent(slot) ==
    /\ cycle[slot].pc = "close"
    /\ LET started == StartRuns(store, FinalTriggers(cycle[slot].content))
           earlier(r) == r.slot # slot
       IN /\ orchs' = SelectSeq(orchs, earlier) \o
                 [i \in 1..Len(started) |->
                     [trig |-> started[i].trig, tfin |-> started[i].tfin,
                      utt |-> started[i].utt, fin |-> started[i].fin,
                      slot |-> slot, st |-> "run"]]
          /\ IF started = << >>
             THEN EndCycle(slot, cycle[slot].cur)
             ELSE /\ cycle' = [cycle EXCEPT ![slot].pc = "orch"]
                  /\ UNCHANGED << lastProcessedSize, isProcessing >>
    /\ UNCHANGED << initialized, watcher >>
    /\ direct' = {}
    /\ UNCHANGED storeVars

\* The same step with processQuery taken as one step that settles later
\* (OrchSettle).
CloseDone(slot) ==
    /\ ProcessContent(slot)
    /\ UNCHANGED pipeVars

\* The wait of a Promise.race: over as soon as one run has settled.
AnySettled(i) == TRUE

\* Promise.all(processingPromises): every other run of the delta of run i has
\* settled.
AllOthersSettled(i) ==
    \A j \in 1..Len(orchs) :
        (j # i /\ orchs[j].slot = orchs[i].slot) => orchs[j].st # "run"

\* A processQuery run started by the watcher settles (resolves when ok,
\* rejects otherwise). processContent catches a rejection per entry; when the
\* last run of the delta has settled, Promise.all resolves and the offset is
\* advanced to the snapshot.
SettleRun(i, ok) ==
    /\ i \in 1..Len(orchs)
    /\ orchs[i].st = "run"
    /\ orchs' = [orchs EXCEPT ![i].st = IF ok THEN "ok" ELSE "err"]
    /\ LET slot == orchs[i].slot
       IN IF AllOthersSettled(i)
          THEN EndCycle(slot, cycle[slot].cur)
          ELSE UNCHANGED << lastProcessedSize, isProcessing, cycle >>
    /\ UNCHANGED << initialized, watcher >>
    /\ direct' = {}
    /\ UNCHANGED storeVars

\* A processQuery run of the watcher taken as one step.
OrchSettle(i, ok) ==
    /\ SettleRun(i, ok)
    /\ UNCHANGED pipeVars

\* ------------------------------------------------------------------ Next
Next ==
    \/ \E f \in BOOLEAN, c \in BOOLEAN, n \in 1..MaxBlocks : ProcessTranscript(f, c, n)
    \/ \E fin \in Finalities, n \in 1..MaxBlocks : AppendUtterance(fin, n)
    \/ \E f \in BOOLEAN, c \in BOOLEAN, n \in 1..MaxBlocks : SaveQuery(f, c, n)
    \/ ClearQueries
    \/ \E u \in 1..MaxAppends, f \in BOOLEAN : AudioCallback(u, f)
    \/ Initialize
    \/ StartWatching
    \/ ChangeNotification
    \/ \E s \in Slots : OpenDone(s)
    \/ \E s \in Slots : ReadDone(s)
    \/ \E s \in Slots : ReadError(s)
    \/ \E s \in Slots : CloseDone(s)
    \/ \E i \in 1..Len(orchs), ok \in BOOLEAN : OrchSettle(i, ok)

Spec == Init /\ [][Next]_vars

\* The store and the watcher alone: the writers that start no run of their own
\* and the steps of the watcher.
WatcherNext ==
    \/ \E f \in BOOLEAN, c \in BOOLEAN, n \in 1..MaxBlocks : ProcessTranscript(f, c, n)
    \/ \E fin \in Finalities, n \in 1..MaxBlocks : AppendUtterance(fin, n)
    \/ ClearQueries
    \/ Initialize
    \/ StartWatching
    \/ ChangeNotification
    \/ \E s \in Slots : OpenDone(s)
    \/ \E s \in Slots : ReadDone(s)
    \/ \E s \in Slots : ReadError(s)
    \/ \E s \in Slots : CloseDone(s)
    \/ \E i \in 1..Len(orchs), ok \in BOOLEAN : OrchSettle(i, ok)

WatcherSpec == Init /\ [][WatcherNext]_vars

\* The entries a delta may hold: well-formed ones of either finality, one
\* whose first line does not match the pattern, one of a single line.
EntryKinds == Finalities \cup {"NOMATCH", "ONELINE"}

RECURSIVE BatchesUpTo(_)
BatchesUpTo(n) ==
    IF n = 0
    THEN {<< >>}
    ELSE LET shorter == BatchesUpTo(n - 1)
         IN shorter \cup {Append(b, k) : b \in shorter, k \in EntryKinds}

\* The most entries of a batch.
MaxBatch == MaxAppends + 1

\* Entries are appended to query.txt one after the other before the watcher
\* takes its next step: fs.appendFileSync of each, one block long.
AppendBatch(batch) ==
    /\ nextId = 1
    /\ batch # << >>
    /\ nextId' = nextId + Len(batch)
    /\ store' = store \o [i \in 1..Len(batch) |-> Entry(i, batch[i], 1)]
    /\ direct' = {}
    /\ UNCHANGED << truncated, orchs >>
    /\ UNCHANGED watcherVars
    /\ UNCHANGED pipeVars

\* The watcher on one batch of entries.
BatchNext ==
    \/ \E batch \in BatchesUpTo(MaxBatch) : AppendBatch(batch)
    \/ Initialize
    \/ StartWatching
    \/ ChangeNotification
    \/ \E s \in Slots : OpenDone(s)
    \/ \E s \in Slots : ReadDone(s)
    \/ \E s \in Slots : CloseDone(s)
    \/ \E i \in 1..Len(orchs), ok \in BOOLEAN : OrchSettle(i, ok)

BatchSpec == Init /\ [][BatchNext]_vars

TypeOK ==
    /\ lastProcessedSize \in 0..MaxBlocks
    /\ isProcessing \in BOOLEAN
    /\ \A s \in Slots : cycle[s].pc \in {"idle", "open", "read", "close", "orch"}
    /\ Len(store) <= MaxAppends

\* ----------------------------------------------------- the feedback guard
\* Texts are sequences of characters.

\* 'The deadline is Friday.': the answer of the reference example.
DeadlineAnswer ==
    << "T", "h", "e", " ", "d", "e", "a", "d", "l", "i", "n", "e", " ", "i",
    "s", " ", "F", "r", "i", "d", "a", "y", "." >>

\* 'the deadline is friday': its echo as the recogniser returns it.
DeadlineEcho ==
    << "t", "h", "e", " ", "d", "e", "a", "d", "l", "i", "n", "e", " ", "i",
    "s", " ", "f", "r", "i", "d", "a", "y" >>

\* 'Friday.': a short answer.
FridayAnswer ==
    << "F", "r", "i", "d", "a", "y", "." >>

\* 'friday': its echo.
FridayEcho ==
    << "f", "r", "i", "d", "a", "y" >>

\* 'Friday?': its echo, heard as a question.
FridayQuestion ==
    << "F", "r", "i", "d", "a", "y", "?" >>

\* '...': punctuation only.
Dots ==
    << ".", ".", "." >>

\* 'so the deadline\nis set': an utterance holding two words of the answer.
DeadlinePhrase ==
    << "s", "o", " ", "t", "h", "e", " ", "d", "e", "a", "d", "l", "i", "n",
    "e", "\n", "i", "s", " ", "s", "e", "t" >>

\* The texts given to storeResponse and to shouldProcessAudio.
Responses == {DeadlineAnswer, FridayAnswer, Dots}
Texts == {DeadlineEcho, FridayEcho, FridayQuestion, Dots, DeadlinePhrase}

\* String.prototype.toLowerCase on the characters that occur in Texts.
Lower(c) == CASE c = "T" -> "t" [] c = "F" -> "f" [] OTHER -> c

\* The character class of the first replace of cleanText; "grave" stands for
\* the grave accent.
PunctuationClass ==
    {".", ",", "/", "#", "!", "$", "%", "^", "&", "*", ";", ":", "{", "}", "=",
     "-", "_", "grave", "~", "(", ")"}

\* \s of the regular expressions.
Whitespace == {" ", "\n", "\t"}

\* replace(/\s+/g, ' '): each run of whitespace becomes one space.
RECURSIVE CollapseWhitespace(_)
CollapseWhitespace(t) ==
    IF t = << >> THEN << >>
    ELSE IF Head(t) \in Whitespace
         THEN IF Len(t) >= 2 /\ t[2] \in Whitespace
              THEN CollapseWhitespace(Tail(t))
              ELSE << " " >> \o CollapseWhitespace(Tail(t))
         ELSE << Head(t) >> \o CollapseWhitespace(Tail(t))

\* String.prototype.trim.
RECURSIVE Trim(_)
Trim(t) ==
    IF t = << >> THEN << >>
    ELSE IF Head(t) \in Whitespace THEN Trim(Tail(t))
    ELSE IF t[Len(t)] \in Whitespace THEN Trim(SubSeq(t, 1, Len(t) - 1))
    ELSE t

\* AudioService.cleanText on a string.
cleanText(text) ==
    LET lowered == [i \in 1..Len(text) |-> Lower(text[i])]
        kept(c) == c \notin PunctuationClass
    IN Trim(CollapseWhitespace(SelectSeq(lowered, kept)))

\* String.prototype.split(' ').
RECURSIVE Split(_)
Split(t) ==
    IF \E i \in 1..Len(t) : t[i] = " "
    THEN LET i == CHOOSE k \in 1..Len(t) :
                      t[k] = " " /\ \A j \in 1..(k - 1) : t[j] # " "
         IN << SubSeq(t, 1, i - 1) >> \o Split(SubSeq(t, i + 1, Len(t)))
    ELSE << t >>

\* Array.prototype.join(' ').
RECURSIVE Join(_)
Join(words) ==
    IF words = << >> THEN << >>
    ELSE IF Len(words) = 1 THEN words[1]
    ELSE words[1] \o << " " >> \o Join(Tail(words))

\* String.prototype.includes.
Includes(t, phrase) ==
    \E i \in 0..(Len(t) - Len(phrase)) : SubSeq(t, i + 1, i + Len(phrase)) = phrase

Min(a, b) == IF a < b THEN a ELSE b

\* The body of the loop of isSimilarToRecentResponses for one stored response.
SimilarTo(response, cleanInput) ==
    \/ response = cleanInput
    \/ /\ Len(response) > 10
       /\ LET words == Split(response)
              consecutiveWordsToMatch == Min(3, Len(words) \div 2)
          IN \E i \in 0..(Len(words) - consecutiveWordsToMatch) :
                LET phrase == Join(SubSeq(words, i + 1, i + consecutiveWordsToMatch))
                IN Len(phrase) > 10 /\ Includes(cleanInput, phrase)

\* AudioService.isSimilarToRecentResponses on a string.
isSimilarToRecentResponses(text) ==
    IF text = << >> THEN FALSE
    ELSE LET cleanInput == cleanText(text)
         IN IF cleanInput = << >> THEN FALSE
            ELSE \E response \in recentResponses : SimilarTo(response, cleanInput)

\* AudioService.shouldProcessAudio on a string.
shouldProcessAudio(transcript) ==
    IF isPlayingTTS THEN FALSE
    ELSE IF now - lastTTSEndTime < FeedbackPreventionDelay THEN FALSE
    ELSE IF transcript # << >> /\ isSimilarToRecentResponses(transcript) THEN FALSE
    ELSE TRUE

\* setTTSState with the end time never recorded.
SetTTSStateFlagOnly(isPlaying) ==
    /\ isPlayingTTS' = isPlaying
    /\ lastTTSEndTime' = lastTTSEndTime
    /\ ttsCall' = << [arg |-> isPlaying, at |-> IF ~isPlaying THEN now ELSE 0] >>

\* AudioService.setTTSState. ttsCall keeps the time of a call that ends the
\* speech.
SetTTSState(isPlaying) ==
    /\ isPlayingTTS' = isPlaying
    /\ lastTTSEndTime' = IF ~isPlaying THEN now ELSE lastTTSEndTime
    /\ ttsCall' = << [arg |-> isPlaying, at |-> IF ~isPlaying THEN now ELSE 0] >>

\* AudioService.storeResponse: the clean text is added and a timer is set that
\* deletes it. Two timers for the same clean text set at the same time are one
\* element here; deleting twice is deleting once.
StoreResponse(text) ==
    LET cleanResponse == cleanText(text)
        earlier(r) == r.text # cleanResponse
    IN /\ recentResponses' = recentResponses \cup {cleanResponse}
       /\ timeouts' = timeouts \cup {[text |-> cleanResponse,
                                      due |-> now + ResponseTimeout]}
       /\ inserted' = {r \in inserted : earlier(r)}
                          \cup {[text |-> cleanResponse, at |-> now]}

\* Time passes up to t. A timer fires when it is due, so time does not pass
\* over a pending timer.
Tick(t) ==
    /\ ticks < MaxTicks
    /\ t > now
    /\ \A tm \in timeouts : t <= tm.due
    /\ now' = t
    /\ ticks' = ticks + 1
    /\ verdict' = << >>
    /\ UNCHANGED << isPlayingTTS, lastTTSEndTime, recentResponses, timeouts,
                    ttsCall, inserted >>
    /\ UNCHANGED ingestVars
    /\ UNCHANGED procVars

\* The speech-output stage reports a state change.
SpeakingStateChange(isPlaying) ==
    /\ SetTTSState(isPlaying)
    /\ verdict' = << >>
    /\ UNCHANGED << recentResponses, timeouts, inserted >>
    /\ UNCHANGED clockVars
    /\ UNCHANGED ingestVars
    /\ UNCHANGED procVars

\* A response is stored.
ResponseStored(text) ==
    /\ Cardinality(timeouts) < MaxPending
    /\ StoreResponse(text)
    /\ verdict' = << >>
    /\ UNCHANGED << isPlayingTTS, lastTTSEndTime, ttsCall >>
    /\ UNCHANGED clockVars
    /\ UNCHANGED ingestVars
    /\ UNCHANGED procVars

\* The callback of a setTimeout of storeResponse runs.
TimeoutFires(tm) ==
    /\ tm \in timeouts
    /\ tm.due <= now
    /\ recentResponses' = recentResponses \ {tm.text}
    /\ timeouts' = timeouts \ {tm}
    /\ verdict' = << >>
    /\ UNCHANGED << isPlayingTTS, lastTTSEndTime, ttsCall, inserted >>
    /\ UNCHANGED clockVars
    /\ UNCHANGED ingestVars
    /\ UNCHANGED procVars

\* A transcript is put to the guard (the 'data' handler of
\* AudioService.startRecording, processQuery).
TranscriptChecked(text) ==
    /\ verdict' = << [text |-> text, result |-> shouldProcessAudio(text)] >>
    /\ UNCHANGED << isPlayingTTS, lastTTSEndTime, recentResponses, timeouts,
                    ttsCall, inserted >>
    /\ UNCHANGED clockVars
    /\ UNCHANGED ingestVars
    /\ UNCHANGED procVars

\* The guard within the feedback prevention delay: time passes by half the
\* delay, and no timer of storeResponse falls due.
GuardNext ==
    \/ \E t \in {now + FeedbackPreventionDelay \div 2} : Tick(t)
    \/ \E b \in BOOLEAN : SpeakingStateChange(b)
    \/ \E text \in Responses : ResponseStored(text)
    \/ \E text \in Texts : TranscriptChecked(text)

GuardSpec == Init /\ [][GuardNext]_vars

\* The recent responses over the response timeout: time passes by half the
\* timeout or up to the next timer.
ExpiryNext ==
    \/ \E t \in {now + ResponseTimeout \div 2} \cup {tm.due : tm \in timeouts} :
          Tick(t)
    \/ \E text \in Responses : ResponseStored(text)
    \/ \E tm \in timeouts : TimeoutFires(tm)
    \/ \E text \in Texts : TranscriptChecked(text)

ExpirySpec == Init /\ [][ExpiryNext]_vars

\* ------------------------------------------------------------ processQuery
\* this.audioService of a QueryService: MeetAgent connects its own; the
\* WatcherService constructs its QueryService and connects nothing.
HasAudioService(s) == s \in {"agent", "client"}

\* config.useTTS && ttsService of a QueryService.
SpeechEnabled(s) == s \in {"agent"} \cup WatcherRuns

\* The transcripts the producers pass and the answers the generation returns.
Transcripts == {DeadlineEcho, FridayQuestion}

\* The transcripts passed to a service: the audio callback passes either to
\* the service of MeetAgent, the other producers pass the first.
TranscriptsOf(s) == IF s = "agent" THEN Transcripts ELSE {DeadlineEcho}
Answers == {DeadlineAnswer}

\* The text of the utterance with identity id.
TextOf(id) == IF id % 2 = 1 THEN DeadlineEcho ELSE FridayQuestion

\* Contents of the reply of the classifier.
TechnicalLabel == << "t", "e", "c", "h", "n", "i", "c", "a", "l" >>
TechnicalReply == << " ", "T" >> \o Tail(TechnicalLabel) \o << "\n" >>
TechnicalDotReply == TechnicalLabel \o << "." >>
CasualReply == << "c", "a", "s", "u", "a", "l" >>

\* What the classification call gives: a reply with a content, or a failure
\* (the call rejects, or the reply has no content to lower-case).
ClassifierOutcomes ==
    {[ok |-> TRUE, content |-> c] :
        c \in {TechnicalReply, TechnicalDotReply, CasualReply}}
        \cup {[ok |-> FALSE, content |-> << >>]}

\* determineConversationType with a label contained in the reply taken for the
\* label.
ConversationTypeByInclusion(outcome) ==
    IF outcome.ok
    THEN IF Includes([i \in 1..Len(outcome.content) |-> Lower(outcome.content[i])],
                     TechnicalLabel)
         THEN "technical" ELSE "casual"
    ELSE "casual"

\* determineConversationType, given what the classification call gives.
determineConversationType(outcome) ==
    IF outcome.ok
    THEN LET content == outcome.content
             conversationType == Trim([i \in 1..Len(content) |-> Lower(content[i])])
         IN IF conversationType = TechnicalLabel THEN "technical" ELSE "casual"
    ELSE "casual"

\* What index.query and processSearchResults give: a context, the empty
\* context of no relevant match, or a failure.
SearchOutcomes == {"context", "empty", "failed"}

\* The file saveAnalysis writes: its name and its timestamp are the time of
\* the call, to the millisecond.
AnalysisRecord(s, r, analysis) ==
    [by |-> s, transcript |-> r.text, context |-> r.ctx, analysis |-> analysis,
     conversationType |-> r.type, timestamp |-> now]

\* fs.writeFileSync(analysisFile, ...): a file of that name is replaced.
WriteRecord(files, rec) ==
    LET other(f) == f.timestamp # rec.timestamp
    IN Append(SelectSeq(files, other), rec)

\* A processQuery call whose return settles nothing in processContent.
ReturnsUnsettled(s, ok) == UNCHANGED ingestVars

\* The rest of queryWithRecentTranscript and of the entry of processContent
\* when the processQuery run of service s returns in this step: a run the
\* watcher has started settles.
Returns(s, ok) ==
    LET mine(i) == orchs[i].trig = EntryOf(s) /\ orchs[i].st = "run"
    IN IF \E i \in 1..Len(orchs) : mine(i)
       THEN SettleRun(CHOOSE i \in 1..Len(orchs) : mine(i), ok)
       ELSE UNCHANGED ingestVars

\* The context argument of processQuery: none (the default null, what every
\* caller of the repository passes) or a context the caller supplies.
Contexts == {"none", "supplied"}

\* The contexts passed to a service: only a client supplies one.
ContextsOf(s) == IF s = "client" THEN Contexts ELSE {"none"}

\* The retrieval for every technical transcript, a supplied context or not.
RetrievalForTechnical(conversationType, context) == conversationType = "technical"

\* conversationType === 'technical' && !context
NeedsRetrieval(conversationType, context) ==
    conversationType = "technical" /\ context = "none"

\* The guard of processQuery passing every transcript.
GuardIgnored(s, transcript) == FALSE

\* The first statement of processQuery: the transcript is denied.
Denied(s, transcript) == HasAudioService(s) /\ ~shouldProcessAudio(transcript)

\* processQuery is called on service s up to its first await: the guard is
\* consulted when an AudioService is connected, and the classification is
\* requested.
CallRecord(s, transcript, context) ==
    IF Denied(s, transcript)
    THEN [NoRun EXCEPT !.pc = "returned", !.text = transcript,
                       !.ctx = context,
                       !.guard = "denied", !.result = "null"]
    ELSE [NoRun EXCEPT !.pc = "classify", !.text = transcript,
                       !.ctx = context,
                       !.guard = IF HasAudioService(s) THEN "passed"
                                 ELSE "none",
                       !.calls = {"classify"}]

\* One call of processQuery, with what it leaves as it is.
Called(s, transcript, context) ==
    /\ procs[s].pc = "idle"
    /\ procs' = [procs EXCEPT ![s] = CallRecord(s, transcript, context)]
    /\ verdict' = IF HasAudioService(s)
                  THEN << [text |-> transcript,
                           result |-> shouldProcessAudio(transcript)] >>
                  ELSE << >>
    /\ UNCHANGED << isPlayingTTS, lastTTSEndTime, recentResponses, timeouts,
                    ttsCall, inserted >>
    /\ UNCHANGED << archive, appended, sideVars >>
    /\ UNCHANGED clockVars

\* A producer calls processQuery.
ProcessQuery(s, transcript, context) ==
    /\ Called(s, transcript, context)
    /\ UNCHANGED ingestVars

\* The classification call settles: determineConversationType returns, and a
\* technical transcript without a context goes on to the embedding, any other
\* to the prompt and the generation request. The run keeps the reply until its next step.
ClassifyDone(s, outcome) ==
    /\ procs[s].pc = "classify"
    /\ LET type == determineConversationType(outcome)
           next == IF NeedsRetrieval(type, procs[s].ctx) THEN "embed"
                   ELSE "generate"
       IN procs' = [procs EXCEPT ![s] =
             [@ EXCEPT !.reply = << outcome >>, !.type = type,
                       !.pc = next, !.calls = @ \cup {next}]]
    /\ verdict' = << >>
    /\ UNCHANGED << isPlayingTTS, lastTTSEndTime, recentResponses, timeouts,
                    ttsCall, inserted >>
    /\ UNCHANGED << archive, appended, sideVars >>
    /\ UNCHANGED clockVars
    /\ UNCHANGED ingestVars

\* The retrieval failing the whole run.
RetrievalFailureRethrown(r) ==
    [r EXCEPT !.pc = "returned", !.result = "rejected", !.reply = << >>]

\* The catch around the retrieval: the failure is logged, the context stays
\* as it was (null), and the run goes on to the prompt and the generation.
RetrievalFailed(r) ==
    [r EXCEPT !.pc = "generate", !.ctx = "none", !.reply = << >>,
              !.calls = @ \cup {"generate"}]

\* embedQuery settles: the index is queried, or the failure is logged and the
\* generation is requested without context.
EmbedDone(s, ok) ==
    /\ procs[s].pc = "embed"
    /\ procs' = [procs EXCEPT ![s] =
          IF ok
          THEN [@ EXCEPT !.pc = "search", !.reply = << >>,
                         !.calls = @ \cup {"search"}]
          ELSE RetrievalFailed(@)]
    /\ verdict' = << >>
    /\ UNCHANGED << isPlayingTTS, lastTTSEndTime, recentResponses, timeouts,
                    ttsCall, inserted >>
    /\ UNCHANGED << archive, appended, sideVars >>
    /\ UNCHANGED clockVars
    /\ UNCHANGED ingestVars

\* index.query settles: the context of the results is taken, or the failure is
\* logged; the generation is requested.
SearchDone(s, outcome) ==
    /\ procs[s].pc = "search"
    /\ procs' = [procs EXCEPT ![s] =
          IF outcome = "failed"
          THEN RetrievalFailed(@)
          ELSE [@ EXCEPT !.pc = "generate", !.ctx = outcome,
                         !.calls = @ \cup {"generate"}]]
    /\ verdict' = << >>
    /\ UNCHANGED << isPlayingTTS, lastTTSEndTime, recentResponses, timeouts,
                    ttsCall, inserted >>
    /\ UNCHANGED << archive, appended, sideVars >>
    /\ UNCHANGED clockVars
    /\ UNCHANGED ingestVars

\* The generation call rejects: processQuery rethrows.
GenerateFailed(s) ==
    /\ procs[s].pc = "generate"
    /\ procs' = [procs EXCEPT ![s] =
          [@ EXCEPT !.pc = "returned", !.result = "rejected", !.reply = << >>]]
    /\ verdict' = << >>
    /\ UNCHANGED << isPlayingTTS, lastTTSEndTime, recentResponses, timeouts,
                    ttsCall, inserted >>
    /\ UNCHANGED << archive, appended, sideVars >>
    /\ UNCHANGED clockVars
    /\ Returns(s, FALSE)

\* A failure of the speech rejecting the call.
SpeechFailureRethrown(r) ==
    [r EXCEPT !.pc = "returned", !.result = "rejected",
              !.calls = @ \cup {"speech-error"}]

\* The catch around synthesizeAndPlay: the failure is logged and the analysis
\* is returned.
SpeechFailed(r) ==
    [r EXCEPT !.pc = "returned", !.result = "analysis",
              !.calls = @ \cup {"speech-error"}]

\* The generation call resolves with an analysis: saveAnalysis writes the
\* record, the analysis is stored with a connected AudioService, and with
\* speech output enabled synthesizeAndPlay runs up to its first await: it
\* reports the speaking state, stores the text with a connected AudioService
\* and requests the synthesis. When the speech client is not initialized
\* (ready is false) synthesizeAndPlay throws at once after reporting the end
\* of the speech; processQuery logs that and returns the analysis.
GenerateDone(s, analysis, ready) ==
    /\ procs[s].pc = "generate"
    /\ LET speaks == SpeechEnabled(s) /\ ready
           made == {"save"} \cup (IF HasAudioService(s) THEN {"store"} ELSE {})
                            \cup (IF speaks THEN {"speak"} ELSE {})
           after == [procs[s] EXCEPT
                       !.ans = analysis, !.reply = << >>,
                       !.pc = IF speaks THEN "speak" ELSE "returned",
                       !.result = IF speaks THEN "none" ELSE "analysis",
                       !.calls = @ \cup made]
       IN /\ procs' = [procs EXCEPT ![s] =
                IF SpeechEnabled(s) /\ ~ready THEN SpeechFailed(after)
                ELSE after]
          /\ archive' = WriteRecord(archive, AnalysisRecord(s, procs[s], analysis))
          /\ IF HasAudioService(s)
             THEN StoreResponse(analysis)
             ELSE UNCHANGED << recentResponses, timeouts, inserted >>
          /\ IF SpeechEnabled(s) /\ HasAudioService(s)
             THEN SetTTSState(ready)
             ELSE UNCHANGED << isPlayingTTS, lastTTSEndTime, ttsCall >>
          /\ IF speaks THEN UNCHANGED ingestVars ELSE Returns(s, TRUE)
    /\ verdict' = << >>
    /\ UNCHANGED << appended, sideVars >>
    /\ UNCHANGED clockVars

\* The speech has been synthesized and played, or one of the steps has failed:
\* synthesizeAndPlay reports the end of the speech either way, processQuery
\* logs a failure, and the analysis is returned.
SpeechDone(s, ok) ==
    /\ procs[s].pc = "speak"
    /\ procs' = [procs EXCEPT ![s] =
          IF ok THEN [@ EXCEPT !.pc = "returned", !.result = "analysis"]
          ELSE SpeechFailed(@)]
    /\ IF HasAudioService(s)
       THEN SetTTSState(FALSE)
       ELSE UNCHANGED << isPlayingTTS, lastTTSEndTime, ttsCall >>
    /\ verdict' = << >>
    /\ UNCHANGED << recentResponses, timeouts, inserted >>
    /\ UNCHANGED << archive, appended, sideVars >>
    /\ UNCHANGED clockVars
    /\ Returns(s, TRUE)

\* The three QueryService instances, each called once by its producer, with
\* the recent responses and the speaking state they share through the
\* AudioService. Time passes to the end of the feedback prevention delay.
OrchNext ==
    \/ \E s \in Services : \E t \in TranscriptsOf(s), c \in ContextsOf(s) :
          ProcessQuery(s, t, c)
    \/ \E s \in Services, o \in ClassifierOutcomes : ClassifyDone(s, o)
    \/ \E s \in Services, ok \in BOOLEAN : EmbedDone(s, ok)
    \/ \E s \in Services, o \in SearchOutcomes : SearchDone(s, o)
    \/ \E s \in Services : GenerateFailed(s)
    \/ \E s \in Services, a \in Answers, ready \in BOOLEAN : GenerateDone(s, a, ready)
    \/ \E s \in Services, ok \in BOOLEAN : SpeechDone(s, ok)
    \/ \E t \in {lastTTSEndTime + FeedbackPreventionDelay} : Tick(t)

OrchSpec == Init /\ [][OrchNext]_vars

\* -------------------------------------------------------------- end to end
\* The two notations of the header line: the pattern of the parsers,
\* "[<timestamp>] [<FINAL|INTERIM>] (confidence: <float>%)", and the log
\* format, "<ISO-8601 timestamp> [FINAL|INTERIM] (confidence: <float>%)".
LogFormats == {"pattern", "log"}

\* firstLine.match(/\[(.*?)\] \[(FINAL|INTERIM)\] \(confidence: ([\d.]+)%\)/) on
\* a header line in either notation: without brackets around the timestamp
\* no part of the line matches.
LoggedHeader(format, fin) == IF format = "pattern" THEN fin ELSE "NOMATCH"

\* TranscriptStore.append of the first entry, its header line in either
\* notation.
AppendEntry(format, fin, len) ==
    /\ nextId = 1
    /\ store = << >>
    /\ len <= MaxBlocks
    /\ nextId' = nextId + 1
    /\ store' = Append(store, Entry(nextId, LoggedHeader(format, fin), len))
    /\ appended' = Append(appended, [id |-> nextId, format |-> format,
                                     fin |-> fin, watching |-> watcher])
    /\ direct' = {}
    /\ UNCHANGED << truncated, orchs >>
    /\ UNCHANGED watcherVars
    /\ UNCHANGED << clockVars, guardVars, procs, archive, sideVars >>

\* fileHandle.close resolves and processContent runs to its Promise.all, the
\* processQuery calls of queryWithRecentTranscript included: each FINAL entry
\* of the delta makes its call, on the transcript queryWithRecentTranscript
\* has taken from the file, up to the first await of processQuery.
WatcherCalls(slot) ==
    /\ ProcessContent(slot)
    /\ LET started == {i \in 1..Len(orchs') :
                          orchs'[i].slot = slot /\ orchs'[i].st = "run"}
           run(s) == CHOOSE i \in started : orchs'[i].trig = EntryOf(s)
       IN procs' = [s \in Calls |->
             IF \E i \in started : orchs'[i].trig = EntryOf(s)
             THEN CallRecord(s, TextOf(orchs'[run(s)].utt), "none")
             ELSE procs[s]]
    /\ verdict' = << >>
    /\ UNCHANGED << isPlayingTTS, lastTTSEndTime, recentResponses, timeouts,
                    ttsCall, inserted >>
    /\ UNCHANGED << archive, appended, sideVars >>
    /\ UNCHANGED clockVars

\* One entry is appended; the watcher reads it; the classification returns
\* technical, the retrieval a context and the generation an answer.
EndToEndNext ==
    \/ Initialize
    \/ StartWatching
    \/ \E format \in LogFormats, fin \in Finalities, len \in 1..MaxBlocks :
          AppendEntry(format, fin, len)
    \/ ChangeNotification
    \/ \E slot \in Slots : OpenDone(slot)
    \/ \E slot \in Slots : ReadDone(slot)
    \/ \E slot \in Slots : WatcherCalls(slot)
    \/ ClassifyDone("watcher", [ok |-> TRUE, content |-> TechnicalReply])
    \/ EmbedDone("watcher", TRUE)
    \/ SearchDone("watcher", "context")
    \/ \E a \in Answers, ready \in BOOLEAN : GenerateDone("watcher", a, ready)
    \/ \E ok \in BOOLEAN : SpeechDone("watcher", ok)

\* The change notification after a write is delivered, the file operations
\* and the calls to the services settle.
EndToEndFairness ==
    /\ WF_vars(Initialize)
    /\ WF_vars(StartWatching)
    /\ WF_vars(ChangeNotification)
    /\ \A slot \in Slots :
          /\ WF_vars(OpenDone(slot))
          /\ WF_vars(ReadDone(slot))
          /\ WF_vars(WatcherCalls(slot))
    /\ WF_vars(ClassifyDone("watcher", [ok |-> TRUE, content |-> TechnicalReply]))
    /\ WF_vars(EmbedDone("watcher", TRUE))
    /\ WF_vars(SearchDone("watcher", "context"))
    /\ WF_vars(\E a \in Answers, ready \in BOOLEAN : GenerateDone("watcher", a, ready))
    /\ WF_vars(\E ok \in BOOLEAN : SpeechDone("watcher", ok))

EndToEndSpec == Init /\ [][EndToEndNext]_vars /\ EndToEndFairness

\* The watcher with the processQuery calls it makes: entries are appended
\* while it is watching, each FINAL entry of a delta makes its call, and the
\* services answer or fail.
DeltaNext ==
    \/ Initialize
    \/ StartWatching
    \/ \E fin \in Finalities, n \in 1..MaxBlocks :
          /\ watcher
          /\ nextId <= Cardinality(WatcherRuns)
          /\ AppendUtterance(fin, n)
    \/ ChangeNotification
    \/ \E slot \in Slots : OpenDone(slot)
    \/ \E slot \in Slots : ReadDone(slot)
    \/ \E slot \in Slots : WatcherCalls(slot)
    \/ \E s \in WatcherRuns, o \in ClassifierOutcomes : ClassifyDone(s, o)
    \/ \E s \in WatcherRuns, ok \in BOOLEAN : EmbedDone(s, ok)
    \/ \E s \in WatcherRuns, o \in SearchOutcomes : SearchDone(s, o)
    \/ \E s \in WatcherRuns : GenerateFailed(s)
    \/ \E s \in WatcherRuns, a \in Answers, ready \in BOOLEAN :
          GenerateDone(s, a, ready)
    \/ \E s \in WatcherRuns, ok \in BOOLEAN : SpeechDone(s, ok)

DeltaSpec == Init /\ [][DeltaNext]_vars

\* ------------------------------------------------------- change events
ChangesFrame ==
    UNCHANGED << clockVars, guardVars, procs, archive, appended, searched,
                 written, appendCall, listed, host >>

\* BrowserService.processTranscript is called: while chokidar is watching,
\* the write of a final transcript makes it emit one 'change' event once the
\* file is stable.
AppendWatched(isFinal, confidence, len) ==
    /\ AppendTranscript(isFinal, confidence, len)
    /\ changes' = IF watcher /\ isFinal
                  THEN [changes EXCEPT !.pending = @ \cup {nextId}]
                  ELSE changes
    /\ ChangesFrame

\* chokidar emits the 'change' event of the write of entry id and the handler
\* runs: it starts a cycle, or skips the event while one is in progress.
ChangeEmitted(id) ==
    /\ id \in changes.pending
    /\ ChangeHandler
    /\ changes' = [pending |-> changes.pending \ {id},
                   skipped |-> IF isProcessing
                               THEN changes.skipped \cup {id}
                               ELSE changes.skipped]
    /\ ChangesFrame

\* The steps of the watcher that leave the events as they are.
WatcherSteps ==
    \/ Initialize
    \/ StartWatching
    \/ \E slot \in Slots : OpenDone(slot)
    \/ \E slot \in Slots : ReadDone(slot)
    \/ \E slot \in Slots : CloseDone(slot)
    \/ \E i \in 1..Len(orchs), ok \in BOOLEAN : OrchSettle(i, ok)

\* Entries are appended, each write is followed by its 'change' event, and
\* every call the watcher awaits resolves or, for a processQuery run, settles.
EventNext ==
    \/ \E f \in BOOLEAN, c \in BOOLEAN, len \in 1..MaxBlocks :
          AppendWatched(f, c, len)
    \/ \E id \in 1..MaxAppends : ChangeEmitted(id)
    \/ WatcherSteps

\* Every event is delivered and every awaited call returns.
EventFairness ==
    /\ WF_vars(Initialize)
    /\ WF_vars(StartWatching)
    /\ \A id \in 1..MaxAppends : WF_vars(ChangeEmitted(id))
    /\ \A slot \in Slots :
          /\ WF_vars(OpenDone(slot))
          /\ WF_vars(ReadDone(slot))
          /\ WF_vars(CloseDone(slot))
    /\ WF_vars(\E i \in 1..Len(orchs), ok \in BOOLEAN : OrchSettle(i, ok))

EventSpec == Init /\ [][EventNext]_vars /\ EventFairness

\* The same with the open or the read of a cycle failing.
GuardedNext ==
    \/ EventNext
    \/ \E slot \in Slots : ReadError(slot)

GuardedSpec == Init /\ [][GuardedNext]_vars /\ EventFairness

\* ------------------------------------------------------------- the host
\* MeetAgent.shutdownTimeout, in milliseconds.
ShutdownTimeout == 10000

\* The awaits of MeetAgent.start, in their order: ttsService.initialize,
\* queryService.initialize, the browser (initializeBrowser, signInToGoogle,
\* joinMeeting), audioService.startRecording, the watcher (initialize and
\* startWatching).
StartSteps == << "tts", "query", "browser", "recording", "watcher" >>
StepAfter(step) ==
    IF step = "watcher" THEN "started"
    ELSE StartSteps[1 + CHOOSE i \in 1..Len(StartSteps) : StartSteps[i] = step]

\* QueryService.initialize: 'PINECONE_INDEX_NAME environment variable is not
\* set' is thrown; and an initialize that goes on without the name.
IndexNameIgnored(h) == FALSE
InitializeRejects(h) == ~h.indexName

\* process.exit(1)
Exited(h) == [h EXCEPT !.exited = TRUE]

\* setTimeout(() => process.exit(1), agent.shutdownTimeout)
ForceExitArmed(h) == [h EXCEPT !.timers = @ \cup {now + ShutdownTimeout}]

\* What follows the return of cleanup(): the SIGINT handler arms the timer;
\* the catch of start rethrows and agent.start().catch exits.
CleanupReturned(h, caller) ==
    IF caller = "sigint" THEN ForceExitArmed(h) ELSE Exited(h)

\* MeetAgent.cleanup is called: it returns at once when a cleanup has begun,
\* and begins its body otherwise.
CleanupCalled(h, caller) ==
    IF h.isShuttingDown
    THEN CleanupReturned(h, caller)
    ELSE [h EXCEPT !.isShuttingDown = TRUE, !.cleanup = "stopRecording",
                   !.caller = caller, !.bodies = @ + 1]

HostFrame ==
    UNCHANGED << watcherVars, orchs, direct, clockVars, guardVars, procs,
                 archive, appended, searched, written, appendCall, listed,
                 changes >>

\* agent.start() is called when the module is loaded, with or without
\* PINECONE_INDEX_NAME in the environment.
StartCalled(indexName) ==
    /\ host.start = "idle"
    /\ host' = [host EXCEPT !.start = "tts", !.indexName = indexName]
    /\ UNCHANGED storeVars
    /\ HostFrame

\* The await start is at resolves (ok) or rejects.
StartStepDone(ok) ==
    /\ ~host.exited
    /\ host.start \in {StartSteps[i] : i \in 1..Len(StartSteps)}
    /\ (host.start = "query" /\ InitializeRejects(host)) => ~ok
    /\ IF ok
       THEN host' = [host EXCEPT
                        !.start = StepAfter(host.start),
                        !.isRecording = @ \/ host.start = "recording",
                        !.watching = @ \/ host.start = "watcher"]
       ELSE host' = CleanupCalled([host EXCEPT !.start = "failed"], "start")
    /\ UNCHANGED storeVars
    /\ HostFrame

\* process.on('SIGINT'): the handler awaits agent.cleanup().
Sigint ==
    /\ ~host.exited
    /\ host.start # "idle"
    /\ ~host.again
    /\ host' = CleanupCalled(
                   IF host.signalAt = 0
                   THEN [host EXCEPT !.signalAt = now]
                   ELSE [host EXCEPT !.again = TRUE], "sigint")
    /\ UNCHANGED storeVars
    /\ HostFrame

\* The body of cleanup has ended, by its last step or in its catch.
BodyEnded(h) == CleanupReturned([h EXCEPT !.cleanup = "returned"], h.caller)

\* watcherService.clearQueryFile is a function.
ClearQueryFileDefined == FALSE

\* The await the body of cleanup is at resolves (ok) or rejects:
\* audioService.stopRecording, then watcherService.stopWatching (watcher.close
\* and queryService.clearQueries), then watcherService.clearQueryFile, then
\* browserService.cleanup. The catch of cleanup logs a rejection and cleanup
\* returns.
CleanupStepDone(ok) ==
    /\ ~host.exited
    /\ host.cleanup \in {"stopRecording", "stopWatching", "browser"}
    /\ IF host.cleanup = "stopRecording"
       THEN /\ host' = IF ok
                       THEN [host EXCEPT !.cleanup = "stopWatching",
                                         !.isRecording = FALSE,
                                         !.steps = Append(@, "stopRecording")]
                       ELSE BodyEnded([host EXCEPT !.isRecording = FALSE,
                                                   !.rejected = TRUE])
            /\ UNCHANGED storeVars
       ELSE IF host.cleanup = "stopWatching"
       THEN IF ok
            THEN /\ store' = << >>
                 /\ truncated' = TRUE
                 /\ UNCHANGED nextId
                 /\ LET stopped == [host EXCEPT
                                       !.watching = FALSE,
                                       !.steps = @ \o << "stopWatching",
                                                         "clearQueries" >>]
                    IN host' = IF ClearQueryFileDefined
                               THEN [stopped EXCEPT !.cleanup = "browser"]
                               ELSE BodyEnded(stopped)
            ELSE /\ host' = BodyEnded([host EXCEPT !.rejected = TRUE])
                 /\ UNCHANGED storeVars
       ELSE /\ host' = BodyEnded(IF ok
                                 THEN [host EXCEPT
                                          !.steps = Append(@, "browser")]
                                 ELSE [host EXCEPT !.rejected = TRUE])
            /\ UNCHANGED storeVars
    /\ HostFrame

\* The timer of the SIGINT handler fires.
ForceExit ==
    /\ ~host.exited
    /\ \E due \in host.timers : due <= now
    /\ host' = Exited(host)
    /\ UNCHANGED storeVars
    /\ HostFrame

\* Time passes, not over a timer that is due.
HostTick(t) ==
    /\ ~host.exited
    /\ host.start # "idle"
    /\ \A due \in host.timers : t <= due
    /\ Tick(t)

HostNext ==
    \/ \E indexName \in BOOLEAN : StartCalled(indexName)
    \/ \E ok \in BOOLEAN : StartStepDone(ok)
    \/ Sigint
    \/ \E ok \in BOOLEAN : CleanupStepDone(ok)
    \/ ForceExit
    \/ \E t \in {now + FeedbackPreventionDelay, now + ShutdownTimeout} :
          HostTick(t)

HostSpec == Init /\ [][HostNext]_vars

\* ---------------------------------------------------------- the archive
\* new Date().toISOString() for the time ms: the fields of the date and of
\* the time, the latter separated by ':' and '.'.
ToISOString(ms) == [ms |-> ms, separator |-> ":"]

\* .replace(/[:.]/g, '-')
Dashed(string) == [string EXCEPT !.separator = "-"]

\* The timestamp field of a record as saveAnalysis wrote it.
TimestampOf(rec) == Dashed(ToISOString(rec.timestamp))

\* new Date(string): the time value, NaN for a string that is no date-time
\* string (its time fields are not separated by ':').
DateValue(string) ==
    IF string.separator = ":"
    THEN [nan |-> FALSE, ms |-> string.ms]
    ELSE [nan |-> TRUE, ms |-> 0]

\* (a, b) => new Date(b.timestamp) - new Date(a.timestamp)
ByTimestamp(a, b) ==
    LET da == DateValue(TimestampOf(a))
        db == DateValue(TimestampOf(b))
    IN IF da.nan \/ db.nan THEN "NaN"
       ELSE IF db.ms > da.ms THEN "positive"
       ELSE IF db.ms < da.ms THEN "negative"
       ELSE "zero"

\* Array.prototype.sort with that comparator: an element goes before the
\* first one the comparator puts after it; NaN counts as 0.
RECURSIVE InsertSorted(_, _)
InsertSorted(sorted, x) ==
    IF sorted = << >> THEN << x >>
    ELSE IF ByTimestamp(Head(sorted), x) = "positive"
    THEN << x >> \o sorted
    ELSE << Head(sorted) >> \o InsertSorted(Tail(sorted), x)

RECURSIVE SortFrom(_, _)
SortFrom(sorted, rest) ==
    IF rest = << >> THEN sorted
    ELSE SortFrom(InsertSorted(sorted, Head(rest)), Tail(rest))

\* fs.readdirSync(analysisDir): the files in an order the file system
\* chooses.
Listings(files) ==
    {[i \in 1..Len(files) |-> files[order[i]]] :
        order \in {o \in [1..Len(files) -> 1..Len(files)] :
                      \A i, j \in 1..Len(files) : o[i] = o[j] => i = j}}

\* QueryService.getAnalyses on the files as readdirSync lists them.
getAnalyses(listing) == SortFrom(<< >>, listing)

\* saveAnalysis(transcript, analysis, context, conversationType) is called.
SaveAnalysisCalled(transcript, analysis) ==
    /\ Len(archive) < MaxAppends
    /\ archive' = WriteRecord(archive,
                      [by |-> "client", transcript |-> transcript,
                       context |-> "none", analysis |-> analysis,
                       conversationType |-> "casual", timestamp |-> now])
    /\ UNCHANGED << ingestVars, clockVars, guardVars, procs, appended,
                    sideVars >>

GetAnalysesCalled(listing) ==
    /\ listed' = << [files |-> archive, result |-> getAnalyses(listing)] >>
    /\ UNCHANGED << ingestVars, clockVars, guardVars, procs, archive,
                    appended, searched, written, appendCall, host, changes >>

ArchiveNext ==
    \/ \E t \in Transcripts, a \in Answers : SaveAnalysisCalled(t, a)
    \/ \E listing \in Listings(archive) : GetAnalysesCalled(listing)
    \/ \E t \in {now + 1, now + FeedbackPreventionDelay} : Tick(t)

ArchiveSpec == Init /\ [][ArchiveNext]_vars

\* ------------------------------------------------------ the text given
\* What a caller may give as the text: a string, or a value that is none
\* (undefined, or a number other than 0).
TextValues ==
    {[type |-> "string", chars |-> c] :
        c \in {<< >>, << " " >>, << "\t", " " >>, << "h", "i" >>,
               << " ", "h", "i" >>}}
    \cup {[type |-> "undefined", chars |-> << >>],
          [type |-> "number", chars |-> << >>]}

\* !text
IsFalsy(text) ==
    \/ text.type = "undefined"
    \/ text.type = "string" /\ text.chars = << >>

\* text.trim().length === 0, for a string.
IsBlank(text) == Len(Trim(text.chars)) = 0

\* A check that looks at the length of the text as it is.
RejectsEmptyText(text) == IsFalsy(text) \/ text.type # "string"

\* saveQuery: !text || typeof text !== 'string' || text.trim().length === 0
RejectsQueryText(text) ==
    IsFalsy(text) \/ text.type # "string" \/ IsBlank(text)

\* processTranscript: !transcript || transcript.trim().length === 0, where
\* trim is no function of a number: the call throws a TypeError.
TranscriptThrows(text) == ~IsFalsy(text) /\ text.type # "string"
RejectsTranscript(text) == IsFalsy(text) \/ IsBlank(text)

AppendCall(by, text, isFinal, outcome) ==
    << [by |-> by, text |-> text, isFinal |-> isFinal, outcome |-> outcome] >>

Skipped ==
    /\ direct' = {}
    /\ UNCHANGED << storeVars, watcherVars, orchs >>

\* QueryService.saveQuery(text, confidence, isFinal).
SaveQueryCalled(text, isFinal, confidence) ==
    /\ IF RejectsQueryText(text)
       THEN /\ Skipped
            /\ appendCall' = AppendCall("saveQuery", text, isFinal, "skipped")
       ELSE /\ AppendQuery(isFinal, confidence, 1)
            /\ appendCall' = AppendCall("saveQuery", text, isFinal, "appended")
    /\ UNCHANGED << clockVars, guardVars, procs, archive, appended, searched,
                    written, listed, host, changes >>

\* BrowserService.processTranscript(transcript, confidence, isFinal).
ProcessTranscriptCalled(text, isFinal, confidence) ==
    /\ IF TranscriptThrows(text)
       THEN /\ Skipped
            /\ appendCall' = AppendCall("processTranscript", text, isFinal,
                                        "thrown")
       ELSE IF RejectsTranscript(text)
       THEN /\ Skipped
            /\ appendCall' = AppendCall("processTranscript", text, isFinal,
                                        "skipped")
       ELSE /\ AppendTranscript(isFinal, confidence, 1)
            /\ appendCall' = AppendCall("processTranscript", text, isFinal,
                                        IF isFinal THEN "appended"
                                        ELSE "logged")
    /\ UNCHANGED << clockVars, guardVars, procs, archive, appended, searched,
                    written, listed, host, changes >>

AppendNext ==
    \/ \E text \in TextValues, f \in BOOLEAN, c \in BOOLEAN :
          SaveQueryCalled(text, f, c)
    \/ \E text \in TextValues, f \in BOOLEAN, c \in BOOLEAN :
          ProcessTranscriptCalled(text, f, c)

AppendSpec == Init /\ [][AppendNext]_vars

\* ------------------------------------------------------- the round trip
\* An utterance: text, finality, confidence (in hundredths) and timestamp.
\* Texts are sequences of characters.
UtteranceTexts == {<< "h", "i" >>, << " ", "h", "i" >>}
Confidences == {0, 95}
Timestamps == {"2024-01-01T10:00:00.000Z"}
Utterances == [text : UtteranceTexts, isFinal : BOOLEAN, confidence : Confidences,
               timestamp : Timestamps]

\* A line is the sequence of its parts, which single spaces separate: a
\* bracketed part `[v]`, a bare part `v`, or `(confidence: v%)`.
Bracketed(v) == [part |-> "bracketed", v |-> v]
Bare(v) == [part |-> "bare", v |-> v]
ConfidencePart(v) == [part |-> "confidence", v |-> v]

\* (confidence * 100).toFixed(2), as a text, and the number it is read as.
ToFixed(confidence) == IF confidence = 95 THEN "95.00" ELSE "0.00"
PercentOf(text) == IF text = "95.00" THEN 95 ELSE 0

\* confidence ? ` (confidence: ${(confidence * 100).toFixed(2)}%)` : ''
confidenceStr(confidence) ==
    IF confidence # 0
    THEN << ConfidencePart(ToFixed(confidence)) >>
    ELSE << >>
\* isFinal ? '[FINAL]' : '[INTERIM]'
finalityStr(isFinal) == Bracketed(IF isFinal THEN "FINAL" ELSE "INTERIM")

\* An entry of the file: its first line, and the lines after it (a line of
\* parts, or the text).
TextLine(text) == [part |-> "text", v |-> text]
\* BrowserService.processTranscript:
\* `[${timestamp}] ${finalityStr}${confidenceStr}\n${transcript}\n\n`
transcriptEntry(u) ==
    [first |-> << Bracketed(u.timestamp), finalityStr(u.isFinal) >>
                   \o confidenceStr(u.confidence),
     rest |-> << TextLine(u.text) >>]
\* QueryService.saveQuery:
\* `${timestamp}\n${finalityStr}${confidenceStr}\n${text}\n\n`
queryEntry(u) ==
    [first |-> << Bare(u.timestamp) >>,
     rest |-> << [part |-> "line",
                  v |-> << finalityStr(u.isFinal) >>
                           \o confidenceStr(u.confidence)],
                 TextLine(u.text) >>]

\* firstLine.match(/\[(.*?)\] \[(FINAL|INTERIM)\] \(confidence: ([\d.]+)%\)/):
\* the places of the line where a bracketed part, a finality tag and a
\* confidence follow each other.
MatchesAt(line) ==
    {i \in 1..Len(line) :
        /\ i + 2 <= Len(line)
        /\ line[i].part = "bracketed"
        /\ line[i + 1].part = "bracketed"
        /\ line[i + 1].v \in Finalities
        /\ line[i + 2].part = "confidence"}

NoMatch == [matched |-> FALSE, timestamp |-> "", finality |-> "",
            confidence |-> 0, text |-> << >>]

\* lines.slice(1).join('\n').trim(): the text when it is the only line, and
\* the text after the characters of the lines before it otherwise.
JoinedText(rest) ==
    IF Len(rest) = 1
    THEN Trim(rest[1].v)
    ELSE << "[" >> \o rest[Len(rest)].v

\* What the parsers of WatcherService.processContent and of
\* getMostRecentTranscript take from an entry.
ParseEntry(entry) ==
    IF Len(entry.rest) >= 1 /\ MatchesAt(entry.first) # {}
    THEN LET i == CHOOSE j \in MatchesAt(entry.first) :
                      \A k \in MatchesAt(entry.first) : j <= k
         IN [matched |-> TRUE,
             timestamp |-> entry.first[i].v,
             finality |-> entry.first[i + 1].v,
             confidence |-> PercentOf(entry.first[i + 2].v),
             text |-> JoinedText(entry.rest)]
    ELSE NoMatch

\* QueryService.getMostRecentTranscript on a file: the text of its last entry
\* that parses as FINAL; the empty text stands for null.
RECURSIVE getMostRecentTranscript(_)
getMostRecentTranscript(file) ==
    IF file = << >> THEN << >>
    ELSE LET parsed == ParseEntry(file[Len(file)].entry)
         IN IF parsed.matched /\ parsed.finality = "FINAL"
            THEN parsed.text
            ELSE getMostRecentTranscript(SubSeq(file, 1, Len(file) - 1))

\* saveQuery(text, confidence, isFinal, timestamp) and
\* processTranscript(transcript, confidence, isFinal, timestamp) with a valid
\* utterance: the entry is appended (by processTranscript only when final).
Writers == {"saveQuery", "processTranscript"}
Serialized(by, u) ==
    IF by = "saveQuery" THEN queryEntry(u) ELSE transcriptEntry(u)
Appends(by, u) == by = "saveQuery" \/ u.isFinal

WriteUtterance(by, u) ==
    /\ Len(written) < MaxAppends
    /\ Appends(by, u)
    /\ written' = Append(written, [by |-> by, utterance |-> u,
                                   entry |-> Serialized(by, u)])
    /\ UNCHANGED << ingestVars, clockVars, guardVars, procs, archive,
                    appended, searched, appendCall, listed, host, changes >>

RoundTripNext ==
    \E by \in Writers, u \in Utterances : WriteUtterance(by, u)

RoundTripSpec == Init /\ [][RoundTripNext]_vars

\* -------------------------------------------------------- search results
\* ProcessResult.  Lengths are counted in characters, scores in hundredths
\* (0.5 is 50).  The defaults of the constructor, the least length of a
\* truncated chunk worth adding, and the length of the separator '\n\n'.
DefaultSimilarityThreshold == 50
DefaultMaxContextLength == 3000
DefaultMinRelevantChunks == 1
MeaningfulLength == 100
SeparatorLength == 2

\* A match of the index: its id is its rank, len the length of its
\* metadata.text (0: the match has no metadata, no text, or an empty text).
Scores == {30, DefaultSimilarityThreshold}
TextLengths == {0, 40, 60, 1500, 2900, 2950}
RawMatches == [score : Scores, len : TextLengths]

RECURSIVE SeqsUpTo(_, _)
SeqsUpTo(S, n) ==
    IF n = 0
    THEN {<< >>}
    ELSE LET shorter == SeqsUpTo(S, n - 1)
         IN shorter \cup {Append(q, x) : q \in shorter, x \in S}

Ranked(raw) ==
    [i \in 1..Len(raw) |-> [id |-> i, score |-> raw[i].score,
                            len |-> raw[i].len]]

\* What index.query resolves to: nothing, or an object with its matches in
\* ranked order.
NoResults == [present |-> FALSE, matches |-> << >>]
SearchResults ==
    {NoResults} \cup
    {[present |-> TRUE, matches |-> Ranked(raw)] :
        raw \in SeqsUpTo(RawMatches, MaxMatches)}

\* The configuration object given to the constructor; 0 stands for a field
\* that is absent or zero, which "||" replaces by the default.
Configs == [similarityThreshold : {0},
            maxContextLength : {0, 1540},
            minRelevantChunks : {0, 2}]

Configured(value, default) == IF value = 0 THEN default ELSE value

similarityThreshold(config) ==
    Configured(config.similarityThreshold, DefaultSimilarityThreshold)
maxContextLength(config) ==
    Configured(config.maxContextLength, DefaultMaxContextLength)
minRelevantChunks(config) ==
    Configured(config.minRelevantChunks, DefaultMinRelevantChunks)

\* A string built by formatResults: the pieces it is concatenated from, each
\* the first len characters of the text of match "of", or the separator.
Separator == [of |-> 0, len |-> SeparatorLength]
Piece(match, len) == [of |-> match.id, len |-> len]

RECURSIVE StringLength(_)
StringLength(string) ==
    IF string = << >>
    THEN 0
    ELSE Head(string).len + StringLength(Tail(string))

\* context += (context ? '\n\n' : '') + text
Concat(context, piece) ==
    IF context = << >> THEN << piece >> ELSE context \o << Separator, piece >>

\* The source record pushed for a match: id, score and metadata, of which the
\* text (here its length) is the one that went into the context.
Source(match, len) == [id |-> match.id, score |-> match.score, len |-> len]

Included(acc, match, len) ==
    [context |-> Concat(acc.context, Piece(match, len)),
     sources |-> Append(acc.sources, Source(match, len))]

\* remainingLength > 100, and a variant that takes 100 characters too.
AtLeastMeaningful(remainingLength) == remainingLength >= MeaningfulLength
IsMeaningful(remainingLength) == remainingLength > MeaningfulLength

\* The loop of formatResults from the i-th match on.
RECURSIVE FormatFrom(_, _, _, _, _)
FormatFrom(matches, i, max, acc, currentLength) ==
    IF i > Len(matches)
    THEN acc
    ELSE LET match == matches[i]
             remainingLength == max - currentLength
         IN IF match.len = 0
            THEN FormatFrom(matches, i + 1, max, acc, currentLength)
            ELSE IF currentLength + match.len <= max
            THEN FormatFrom(matches, i + 1, max,
                            Included(acc, match, match.len),
                            currentLength + match.len)
            ELSE IF IsMeaningful(remainingLength)
            THEN Included(acc, match, remainingLength)
            ELSE acc

formatResults(matches, config) ==
    FormatFrom(matches, 1, maxContextLength(config),
               [context |-> << >>, sources |-> << >>], 0)

Prefix(q, n) == SubSeq(q, 1, IF n < Len(q) THEN n ELSE Len(q))

\* The matches handed to formatResults: those that reach the threshold, or
\* the first minRelevantChunks of all when fewer than that many reach it.
FinalMatches(matches, config) ==
    LET reaches(m) == m.score >= similarityThreshold(config)
        relevantMatches == SelectSeq(matches, reaches)
    IN IF Len(relevantMatches) < minRelevantChunks(config)
       THEN Prefix(matches, minRelevantChunks(config))
       ELSE relevantMatches

processSearchResults(searchResults, config) ==
    IF ~searchResults.present
    THEN [context |-> << >>, sources |-> << >>, totalMatches |-> 0,
          relevantMatches |-> 0]
    ELSE LET finalMatches == FinalMatches(searchResults.matches, config)
             formatted == formatResults(finalMatches, config)
         IN [context |-> formatted.context,
             sources |-> formatted.sources,
             totalMatches |-> Len(searchResults.matches),
             relevantMatches |-> Len(finalMatches)]

\* A ProcessResult is constructed with a configuration and its
\* processSearchResults is called.
SearchResultsProcessed(searchResults, config) ==
    /\ searched' = << [searchResults |-> searchResults, config |-> config,
                       result |-> processSearchResults(searchResults,
                                                       config)] >>
    /\ UNCHANGED << ingestVars, clockVars, guardVars, procs, archive,
                    appended, written, appendCall, listed, host, changes >>

\* One call is looked at.
SearchNext ==
    /\ searched = << >>
    /\ \E searchResults \in SearchResults, config \in Configs :
          SearchResultsProcessed(searchResults, config)

SearchSpec == Init /\ [][SearchNext]_vars

\* ---------------------------------------------------------- the properties
InProgress(s) == cycle[s].pc # "idle"
HasRead(s) == cycle[s].pc \in {"close", "orch"}

WatcherRunsOn(u) == Cardinality({i \in 1..Len(orchs) : orchs[i].utt = u})
DirectRunsOn(u) == Cardinality({r \in direct : r.utt = u})
TriggeredBy(id) == Cardinality({i \in 1..Len(orchs) : orchs[i].trig = id})

\* C1: at most one watcher cycle is in progress at any moment, whichever entry
\* point started it; a notification that arrives during a cycle starts none.
C1_AtMostOneCycle == Cardinality({s \in Slots : InProgress(s)}) <= 1

\* C2: without truncation no part of the store is read as the delta of two
\* cycles (no two cycles hold overlapping ranges), and every entry starts at
\* most one watcher-triggered orchestration.
C2_NoDeltaTwice ==
    ~truncated =>
        /\ \A id \in 1..MaxAppends : TriggeredBy(id) <= 1
        /\ (HasRead("init") /\ HasRead("chg")) =>
               \/ cycle["init"].pos + cycle["init"].len <= cycle["chg"].pos
               \/ cycle["chg"].pos + cycle["chg"].len <= cycle["init"].pos

\* C3: for a given FINAL utterance at most one orchestration is ever started,
\* counting the runs of the watcher, of saveQuery and of the audio callback.
C3_OneRunPerUtterance ==
    \A u \in 1..MaxAppends : WatcherRunsOn(u) + DirectRunsOn(u) <= 1

\* C4: the processed offset never decreases from one state to the next, except
\* in a step that finds the store smaller than the offset and sets it to 0.
C4_OffsetMonotone ==
    [][\/ lastProcessedSize' >= lastProcessedSize
       \/ (lastProcessedSize' = 0 /\ SizeOf(store) < lastProcessedSize)]_vars

\* C5: a cycle reads exactly the range between the processed offset and the
\* size snapshot taken at its start, and a cycle that finds nothing new (size
\* <= offset) does not go on to read, orchestrate or move the offset.
C5_ReadsExactDelta ==
    \A s \in Slots :
        /\ InProgress(s) => (cycle[s].cur > cycle[s].from
                             /\ cycle[s].len = cycle[s].cur - cycle[s].from)
        /\ cycle[s].pc \in {"read", "close", "orch"} => cycle[s].pos = cycle[s].from

\* C6: a cycle that finds the store smaller than the offset resets the offset
\* to 0 and, in that same cycle, reads the whole content from 0 to the
\* snapshot, orchestrates every FINAL entry of it and ends with the offset at
\* the snapshot.
C6_ResetReadsAll ==
    [][\A s \in Slots :
          /\ (cycle'[s].reset /\ cycle'[s].pc \in {"read", "close", "orch"})
                 => (cycle'[s].pos = 0 /\ cycle'[s].len = cycle'[s].cur)
          /\ (cycle[s].reset /\ HasRead(s) /\ cycle'[s].pc = "idle")
                 => /\ lastProcessedSize' = cycle[s].cur
                    /\ \A k \in 1..Len(cycle[s].content) :
                          IsFinalPiece(cycle[s].content[k]) =>
                              \E i \in 1..Len(orchs') :
                                  /\ orchs'[i].slot = s
                                  /\ orchs'[i].utt = cycle[s].content[k].e.id]_vars

\* C7: with writers that only append or fully truncate, every delta a cycle
\* reads starts at an entry boundary and holds whole entries only.
C7_WholeEntries ==
    \A s \in Slots :
        HasRead(s) => \A k \in 1..Len(cycle[s].content) : cycle[s].content[k].whole

\* C8: the offset is advanced to the snapshot of a cycle only in the step that
\* ends that cycle, after its read has completed and when no run of its delta
\* is still pending; a cycle waiting for runs has not advanced the offset.
C8_AdvanceAfterSettle ==
    [][(/\ initialized
        /\ lastProcessedSize' # lastProcessedSize
        /\ ~(lastProcessedSize' = 0 /\ SizeOf(store) < lastProcessedSize))
       => \E s \in Slots :
             /\ HasRead(s)
             /\ cycle'[s].pc = "idle"
             /\ lastProcessedSize' = cycle[s].cur
             /\ \A i \in 1..Len(orchs') :
                   orchs'[i].slot = s => orchs'[i].st # "run"]_vars

C8_Witness ==
    /\ \A s \in Slots : ~InProgress(s)
    /\ \E i \in 1..Len(orchs) : orchs[i].st \in {"ok", "err"}
    /\ lastProcessedSize > 0
    /\ lastProcessedSize = SizeOf(store)

\* C9: an entry whose orchestration has rejected is never read again: when a
\* read completes, the delta it delivers holds no entry for which a run of a
\* processContent call that has already returned ended in a rejection.
C9_PoisonedNeverReread ==
    [][\A s \in Slots :
          (cycle[s].pc = "read" /\ cycle'[s].pc = "close") =>
              \A k \in 1..Len(cycle'[s].content) :
                  cycle'[s].content[k].head =>
                      ~\E i \in 1..Len(orchs) :
                            /\ orchs[i].trig = cycle'[s].content[k].e.id
                            /\ orchs[i].st = "err"
                            /\ cycle[orchs[i].slot].pc # "orch"]_vars

\* C10: every orchestration is started for a FINAL utterance: each run of the
\* watcher is triggered by a FINAL entry and runs on a FINAL entry, and each
\* run of saveQuery or of the audio callback is for a FINAL transcript.
C10_OnlyFinal ==
    /\ \A i \in 1..Len(orchs) : orchs[i].tfin = "FINAL" /\ orchs[i].fin = "FINAL"
    /\ \A r \in direct : r.fin = "FINAL"

C10_Witness ==
    /\ \A s \in Slots : ~InProgress(s)
    /\ orchs # << >>
    /\ direct # {}
    /\ \E i \in 1..Len(store) :
          store[i].hdr = "INTERIM" /\ EndOf(store, i) <= lastProcessedSize

\* C11: every FINAL entry of a delta starts its own orchestration of that
\* entry: in the step in which processContent has run over a delta, the runs of
\* that cycle are as many as the FINAL entries of the delta and the i-th run is
\* on the i-th of them.
C11_OwnOrchestration ==
    [][\A s \in Slots :
          (cycle[s].pc = "close" /\ cycle'[s].pc # "close") =>
              LET trigs == FinalTriggers(cycle[s].content)
                  ofCycle(r) == r.slot = s
                  mine == SelectSeq(orchs', ofCycle)
              IN /\ Len(mine) = Len(trigs)
                 /\ \A i \in 1..Len(mine) : mine[i].utt = trigs[i].id]_vars

\* C15: a transcript put to the guard after setTTSState(true) is refused until
\* setTTSState(false) is called; after setTTSState(false) at time T (the last
\* call of setTTSState) it is refused before T + 1000 ms, and from T + 1000 ms
\* on it is accepted when it is similar to no recent response.
C15_SpeakingWindow ==
    (verdict # << >> /\ ttsCall # << >>) =>
        LET text == verdict[1].text
            result == verdict[1].result
            T == ttsCall[1].at
        IN IF ttsCall[1].arg
           THEN result = FALSE
           ELSE /\ now < T + FeedbackPreventionDelay => result = FALSE
                /\ (/\ now >= T + FeedbackPreventionDelay
                    /\ ~isSimilarToRecentResponses(text)) => result = TRUE

C15_Witness ==
    /\ verdict # << >>
    /\ ttsCall # << >>
    /\ ~ttsCall[1].arg
    /\ now >= ttsCall[1].at + FeedbackPreventionDelay
    /\ recentResponses # {}
    /\ verdict[1].result = TRUE

\* C16: a stored response is in the recent-response set during the 30 s that
\* follow its last insertion, also when the same text was stored before, and
\* it is no longer in the set once these 30 s have elapsed and the timers that
\* are due have fired.
C16_ThirtySeconds ==
    \A r \in inserted :
        /\ now < r.at + ResponseTimeout => r.text \in recentResponses
        /\ (/\ now >= r.at + ResponseTimeout
            /\ \A tm \in timeouts : tm.due > now) => r.text \notin recentResponses

\* The normal form of the reference predicate: lower-cased, every punctuation
\* mark removed (of the marks in Texts the question mark is outside the class
\* of cleanText), whitespace collapsed.
ReferenceNormalForm(text) ==
    LET lowered == [i \in 1..Len(text) |-> Lower(text[i])]
        kept(c) == c \notin (PunctuationClass \cup {"?"})
    IN Trim(CollapseWhitespace(SelectSeq(lowered, kept)))

\* The reference predicate on a normal form and a set of stored responses.
ReferenceSuppressed(normal, stored) ==
    \E response \in stored :
        \/ response = normal
        \/ /\ Len(response) > 10
           /\ LET words == Split(response)
                  n == Min(3, Len(words) \div 2)
              IN \E first \in 1..(Len(words) - n + 1) :
                    LET phrase == Join([k \in 1..n |-> words[first + k - 1]])
                    IN Len(phrase) > 10 /\ Includes(normal, phrase)

\* C17: for every input and every recent-response set the content test of the
\* guard gives what the reference predicate gives on the normal form of the
\* input; after storeResponse("The deadline is Friday.") the input "the
\* deadline is friday" is suppressed.
C17_ContentTest ==
    /\ \A text \in Texts :
          isSimilarToRecentResponses(text)
              <=> ReferenceSuppressed(ReferenceNormalForm(text), recentResponses)
    /\ cleanText(DeadlineAnswer) \in recentResponses
           => isSimilarToRecentResponses(DeadlineEcho)

\* The step in which processQuery is called on service s.
CallOf(s) == procs[s].pc = "idle" /\ procs'[s].pc # "idle"

\* Some service is speaking: its synthesizeAndPlay has started and not ended.
SpeechPlaying == \E q \in Services : procs[q].pc = "speak"

\* C13: when the guard denies the transcript of a processQuery call, the call
\* returns null at once: no classification, embedding, search or generation
\* is requested, no record is written, nothing is stored in the recent
\* responses and no speech starts, in that step and ever after.
C13_DeniedReturnsNull ==
    [][\A s \in Services :
          /\ (CallOf(s) /\ verdict' # << >> /\ ~verdict'[1].result) =>
                /\ procs'[s].pc = "returned"
                /\ procs'[s].result = "null"
                /\ procs'[s].calls = {}
                /\ archive' = archive
                /\ recentResponses' = recentResponses
                /\ timeouts' = timeouts
                /\ isPlayingTTS' = isPlayingTTS
          /\ procs[s].result = "null" => procs'[s] = procs[s]]_vars

\* A call has been denied while another service was past its generation.
C13_Witness ==
    \E s, q \in Services :
        /\ procs[s].guard = "denied"
        /\ procs[s].result = "null"
        /\ verdict # << >>
        /\ ~verdict[1].result
        /\ procs[q].ans # << >>

\* C14: every processQuery call consults the guard before it requests the
\* classification, and none proceeds to the classification while the speech
\* of any service is playing.
C14_AsksTheGuard ==
    [][\A s \in Services :
          (CallOf(s) /\ procs'[s].pc = "classify") =>
              /\ procs'[s].guard = "passed"
              /\ ~SpeechPlaying]_vars

\* C18: a processQuery run of a service with speech output disabled leaves
\* the recent responses as they are.
C18_SilentRunStoresNothing ==
    [][\A s \in Services :
          (~SpeechEnabled(s) /\ procs'[s] # procs[s]) =>
              /\ recentResponses' = recentResponses
              /\ timeouts' = timeouts]_vars

\* C19: when the speech of a run starts, whichever service runs it, the clean
\* text of its analysis is in the recent responses of the AudioService.
C19_StoredBeforeSpeech ==
    [][\A s \in Services :
          (procs[s].pc # "speak" /\ procs'[s].pc = "speak") =>
              cleanText(procs'[s].ans) \in recentResponses']_vars

\* The content is the word technical in any letter case with nothing but
\* whitespace around it.
IsTechnicalWord(content) ==
    \E i, j \in 1..Len(content) :
        /\ [k \in 1..(j - i + 1) |-> Lower(content[i + k - 1])] = TechnicalLabel
        /\ \A k \in 1..Len(content) : (k < i \/ k > j) => content[k] \in Whitespace

\* C20: the conversation type is technical exactly when the classification
\* gives a reply whose content, lower-cased and trimmed, is the word
\* technical, and casual otherwise, a failed classification included; the
\* run never ends at the classification: a casual transcript goes on to the
\* generation request and a technical one to the retrieval, and no run
\* returns before its generation has been requested.
C20_ClassificationFailSafe ==
    [][\A s \in Services :
          /\ (procs[s].pc = "classify" /\ procs'[s] # procs[s]) =>
                LET outcome == procs'[s].reply[1]
                    technical == outcome.ok /\ IsTechnicalWord(outcome.content)
                IN /\ procs'[s].type = IF technical THEN "technical" ELSE "casual"
                   /\ procs'[s].pc \in {"embed", "generate"}
                   /\ ~technical => procs'[s].pc = "generate"
                   /\ procs'[s].result = "none"
          /\ (procs[s].pc \in {"classify", "embed", "search"}) =>
                procs'[s].pc # "returned"]_vars

\* The classification of a run has failed and its generation is requested.
C20_Witness ==
    \E s \in Services :
        /\ procs[s].pc = "generate"
        /\ procs[s].reply = << [ok |-> FALSE, content |-> << >>] >>
        /\ procs[s].type = "casual"

\* The archive holds exactly one record, that of the first entry, with the
\* conversation type technical and a generated answer as its analysis.
RecordOfEntry ==
    /\ Len(archive) = 1
    /\ archive[1].transcript = TextOf(appended[1].id)
    /\ archive[1].conversationType = "technical"
    /\ archive[1].context = "context"
    /\ archive[1].analysis \in Answers

\* C12: after a FINAL entry is appended in the log format or in the notation
\* of the pattern while the watcher is running, the archive eventually holds
\* exactly one record for it, technical and with the generated answer; the
\* archive never holds more than one record then.
C12_EndToEnd ==
    /\ (/\ appended # << >>
        /\ appended[1].fin = "FINAL"
        /\ appended[1].watching) ~> RecordOfEntry
    /\ []((appended # << >> /\ appended[1].watching) => Len(archive) <= 1)

\* The same for an entry whose header line is in the notation of the pattern.
EndToEndPattern ==
    /\ (/\ appended # << >>
        /\ appended[1].fin = "FINAL"
        /\ appended[1].format = "pattern"
        /\ appended[1].watching) ~> RecordOfEntry
    /\ []((appended # << >> /\ appended[1].watching) => Len(archive) <= 1)

\* The record of a FINAL entry in the notation of the pattern is in the
\* archive.
EndToEndPatternWitness ==
    /\ appended # << >>
    /\ appended[1].fin = "FINAL"
    /\ appended[1].format = "pattern"
    /\ appended[1].watching
    /\ RecordOfEntry

\* The run of service s has its conversation type.
Classified(s) == procs[s].type # "none"

\* C21: a run requests the embedding if and only if its conversation type is
\* technical and its caller supplied no context, and it queries the index
\* only after the embedding; a casual run and a run with a supplied context
\* request neither.
C21_RetrievalIffTechnical ==
    \A s \in Services :
        /\ Classified(s) =>
              ("embed" \in procs[s].calls <=>
                  (procs[s].type = "technical" /\ procs[s].ctx # "supplied"))
        /\ "search" \in procs[s].calls => "embed" \in procs[s].calls
        /\ ~Classified(s) => procs[s].calls \cap {"embed", "search"} = {}

\* A technical run with a supplied context is at its generation, and a
\* technical run without one has queried the index.
C21_Witness ==
    \E s, q \in Services :
        /\ procs[s].type = "technical"
        /\ procs[s].ctx = "supplied"
        /\ procs[s].pc = "generate"
        /\ procs[q].type = "technical"
        /\ "search" \in procs[q].calls

\* The retrieval of the run of service s has failed: the embedding was
\* requested, the retrieval is over and the run has no context.
RetrievalHasFailed(s) ==
    /\ "embed" \in procs[s].calls
    /\ procs[s].pc \notin {"embed", "search"}
    /\ procs[s].ctx = "none"

\* The record a run of service s writes, its timestamp left aside.
RecordOf(s) ==
    [by |-> s, transcript |-> procs[s].text, context |-> procs[s].ctx,
     analysis |-> procs[s].ans, conversationType |-> procs[s].type]

\* What a record holds beside its timestamp.
ContentOf(rec) ==
    [by |-> rec.by, transcript |-> rec.transcript, context |-> rec.context,
     analysis |-> rec.analysis, conversationType |-> rec.conversationType]

\* The records of the archive.
Records == {archive[i] : i \in 1..Len(archive)}

\* The run of service s writes its record in this step.
Saves(s) == "save" \notin procs[s].calls /\ "save" \in procs'[s].calls

\* C22: a run whose embedding or index query has failed goes on: in the step
\* of the failure its generation is requested without context and it is not
\* rejected, and when its generation returns, its record is written with
\* that context.
C22_RetrievalFailureTolerated ==
    [][\A s \in Services :
          /\ (~RetrievalHasFailed(s) /\ RetrievalHasFailed(s)') =>
                /\ procs'[s].pc = "generate"
                /\ "generate" \in procs'[s].calls
                /\ procs'[s].result = "none"
          /\ (RetrievalHasFailed(s) /\ Saves(s)) =>
                /\ Len(archive') >= 1
                /\ ContentOf(archive'[Len(archive')]) = RecordOf(s)'
                /\ archive'[Len(archive')].context = "none"]_vars

\* The index query of a run has failed and its record is written.
C22_Witness ==
    \E s \in Services :
        /\ RetrievalHasFailed(s)
        /\ "search" \in procs[s].calls
        /\ procs[s].result = "analysis"
        /\ \E rec \in Records : ContentOf(rec) = RecordOf(s)

\* The generation of the run of service s fails in this step.
GenerationFails(s) == procs[s].pc = "generate" /\ procs'[s].result = "rejected"

\* C23: when the generation of a processQuery call of the watcher fails, the
\* call is rejected and stays so, no record is written, nothing is stored in
\* the recent responses and no speech starts; the rejection is caught for
\* its entry alone: the other calls and the other runs of the delta are left
\* as they are, the watcher keeps watching, and once every run of the delta
\* has settled the cycle is over, with the processing flag cleared and the
\* offset at the snapshot of the delta.
C23_GenerationFailureLocal ==
    [][\A s \in WatcherRuns :
          /\ GenerationFails(s) =>
                /\ procs'[s].pc = "returned"
                /\ procs'[s].calls \cap {"save", "store", "speak"} = {}
                /\ archive' = archive
                /\ recentResponses' = recentResponses
                /\ timeouts' = timeouts
                /\ isPlayingTTS' = isPlayingTTS
                /\ \A q \in Calls \ {s} : procs'[q] = procs[q]
                /\ watcher'
                /\ \E i \in 1..Len(orchs) :
                      /\ orchs[i].trig = EntryOf(s)
                      /\ orchs[i].st = "run"
                      /\ Len(orchs') = Len(orchs)
                      /\ orchs'[i].st = "err"
                      /\ \A j \in 1..Len(orchs) : j # i => orchs'[j] = orchs[j]
                      /\ IF \A j \in 1..Len(orchs) : j # i => orchs[j].st # "run"
                         THEN /\ cycle'[orchs[i].slot].pc = "idle"
                              /\ ~isProcessing'
                              /\ lastProcessedSize' = cycle[orchs[i].slot].cur
                         ELSE /\ cycle' = cycle
                              /\ lastProcessedSize' = lastProcessedSize
          /\ procs[s].result = "rejected" => procs'[s] = procs[s]]_vars

\* Two entries were in one delta: the call for the first was rejected at its
\* generation, the call for the second has written its record, and the cycle
\* is over with the flag cleared and the offset at the end of the store.
C23_Witness ==
    /\ procs["watcher"].result = "rejected"
    /\ procs["watcher2"].result = "analysis"
    /\ Len(orchs) = 2
    /\ orchs[1].st = "err"
    /\ orchs[2].st = "ok"
    /\ Len(archive) = 1
    /\ archive[1].by = "watcher2"
    /\ \A slot \in Slots : cycle[slot].pc = "idle"
    /\ ~isProcessing
    /\ lastProcessedSize = SizeOf(store)

\* The call for the entry of one delta was rejected at its generation, and
\* the call for the entry of the next delta has written its record.
NextDeltaAfterRejection ==
    /\ procs["watcher"].result = "rejected"
    /\ procs["watcher2"].result = "analysis"
    /\ Len(orchs) = 1
    /\ orchs[1].trig = 2
    /\ orchs[1].st = "ok"
    /\ Len(archive) = 1
    /\ ~isProcessing
    /\ lastProcessedSize = SizeOf(store)

\* The record is that of a call whose generation has returned an analysis,
\* and carries the transcript, context, analysis and conversation type of
\* that call.
WrittenAfterGeneration(rec) ==
    /\ "generate" \in procs[rec.by].calls
    /\ "save" \in procs[rec.by].calls
    /\ procs[rec.by].ans # << >>
    /\ procs[rec.by].result # "rejected"
    /\ ContentOf(rec) = RecordOf(rec.by)

\* C24: every record of the archive is that of a call that has passed the
\* check of the guard and whose generation has returned, and carries the
\* transcript, context, analysis and conversation type of that call.
C24_RecordsOfCheckedRuns ==
    \A rec \in Records :
        /\ procs[rec.by].guard = "passed"
        /\ WrittenAfterGeneration(rec)

\* Every record of the archive is that of a call whose generation has
\* returned, the check of the guard left aside.
RecordsAfterGeneration == \A rec \in Records : WrittenAfterGeneration(rec)

\* Records of a call that passed the guard and of one that never consulted
\* it are in the archive.
RecordsAfterGenerationWitness ==
    \E a, b \in Records :
        /\ procs[a.by].guard = "passed"
        /\ procs[b.by].guard = "none"

\* The calls whose generation has returned an analysis.
Generated == {s \in Calls : "save" \in procs[s].calls}

\* C25: the archive holds as many records as there are calls whose
\* generation has returned: each has its own record, and none is overwritten.
C25_OneRecordEach ==
    /\ Len(archive) = Cardinality(Generated)
    /\ \A s \in Generated : \E rec \in Records : ContentOf(rec) = RecordOf(s)

\* synthesizeAndPlay of the run of service s rejects in this step.
SpeechFails(s) ==
    /\ "speech-error" \notin procs[s].calls
    /\ "speech-error" \in procs'[s].calls

\* C26: when synthesizeAndPlay of a call rejects, the call resolves with its
\* analysis; the failure leaves the archive as it is when the record was
\* written in an earlier step, and when the speech fails in the step that
\* writes the record, the record is in the archive after it; a call that has
\* resolved stays resolved.
C26_SpeechFailureNotFatal ==
    [][\A s \in Services :
          /\ SpeechFails(s) =>
                /\ procs'[s].pc = "returned"
                /\ procs'[s].result = "analysis"
                /\ procs'[s].ans # << >>
                /\ "save" \in procs'[s].calls
                /\ IF Saves(s)
                   THEN /\ Len(archive') >= 1
                        /\ ContentOf(archive'[Len(archive')]) = RecordOf(s)'
                   ELSE archive' = archive
          /\ procs[s].result = "analysis" => procs'[s] = procs[s]]_vars

\* The speech of a call has failed while it was playing, the call has
\* returned its analysis and its record is in the archive.
C26_Witness ==
    \E s \in Services :
        /\ {"speak", "speech-error"} \subseteq procs[s].calls
        /\ procs[s].result = "analysis"
        /\ \E rec \in Records : ContentOf(rec) = RecordOf(s)

\* The processSearchResults call of the last step, when there is one.
HasSearched == searched # << >>
LastSearch == searched[1]

\* The characters of a context that come from match texts.
RECURSIVE TextLength(_)
TextLength(string) ==
    IF string = << >>
    THEN 0
    ELSE (IF Head(string) = Separator THEN 0 ELSE Head(string).len)
         + TextLength(Tail(string))

\* C27: for every list of matches and every configuration, the context
\* string processSearchResults returns is at most maxContextLength characters
\* long, the separators between the match texts counted.
C27_ContextWithinBudget ==
    HasSearched =>
        StringLength(LastSearch.result.context)
            <= maxContextLength(LastSearch.config)

\* What the code does keep within maxContextLength: the characters of the
\* match texts, the separators not counted.
TextWithinBudget ==
    HasSearched =>
        TextLength(LastSearch.result.context)
            <= maxContextLength(LastSearch.config)

\* Two matches or more went into a context that is longer than
\* maxContextLength.
SeparatorsOverBudget ==
    /\ HasSearched
    /\ Len(LastSearch.result.sources) >= 2
    /\ TextLength(LastSearch.result.context)
           = maxContextLength(LastSearch.config)

\* The matches of the last search that formatResults is given and that carry
\* a text, in ranked order, and the characters of the first k of them.
TextMatches ==
    LET hasText(m) == m.len > 0
    IN SelectSeq(FinalMatches(LastSearch.searchResults.matches,
                              LastSearch.config), hasText)

RECURSIVE CharactersOf(_, _)
CharactersOf(matches, k) ==
    IF k = 0 THEN 0 ELSE matches[k].len + CharactersOf(matches, k - 1)

\* How many of them fit the budget, each in full, and the budget that remains
\* after these.
FittingMatches ==
    CHOOSE k \in 0..Len(TextMatches) :
        /\ CharactersOf(TextMatches, k) <= maxContextLength(LastSearch.config)
        /\ \/ k = Len(TextMatches)
           \/ CharactersOf(TextMatches, k + 1)
                  > maxContextLength(LastSearch.config)
RemainingBudget ==
    maxContextLength(LastSearch.config)
        - CharactersOf(TextMatches, FittingMatches)

\* The texts a context is concatenated from, in their order.
TextsOf(context) ==
    LET isText(piece) == piece # Separator
    IN SelectSeq(context, isText)

\* C28: the match texts are concatenated in ranked order; the first match
\* that does not fit the remaining budget is included, cut to that budget,
\* only if the budget exceeds 100 characters, and is dropped otherwise; no
\* match ranked after it is included; the sources are exactly the included
\* matches, the truncated one with its truncated text.
C28_RankedWithinBudget ==
    (HasSearched /\ LastSearch.searchResults.present) =>
        LET sources == LastSearch.result.sources
            texts == TextsOf(LastSearch.result.context)
            truncates == /\ FittingMatches < Len(TextMatches)
                         /\ RemainingBudget > MeaningfulLength
        IN /\ Len(sources) = FittingMatches + (IF truncates THEN 1 ELSE 0)
           /\ \A i \in 1..Len(sources) :
                 /\ sources[i].id = TextMatches[i].id
                 /\ sources[i].score = TextMatches[i].score
                 /\ sources[i].len = IF i <= FittingMatches
                                     THEN TextMatches[i].len
                                     ELSE RemainingBudget
           /\ Len(texts) = Len(sources)
           /\ \A i \in 1..Len(texts) :
                 /\ texts[i].of = sources[i].id
                 /\ texts[i].len = sources[i].len

\* A match was included truncated, after one that was included in full.
C28_Witness ==
    /\ HasSearched
    /\ LastSearch.searchResults.present
    /\ FittingMatches >= 1
    /\ FittingMatches < Len(TextMatches)
    /\ Len(LastSearch.result.sources) = FittingMatches + 1

\* A match was dropped for a budget of at most 100 characters, and a match
\* ranked after it that would fit that budget is not included either.
DroppedBeforeFitting ==
    /\ HasSearched
    /\ LastSearch.searchResults.present
    /\ FittingMatches + 2 <= Len(TextMatches)
    /\ RemainingBudget <= MeaningfulLength
    /\ TextMatches[FittingMatches + 2].len <= RemainingBudget
    /\ Len(LastSearch.result.sources) = FittingMatches

\* The ranks of the matches of the last search that reach the threshold, the
\* ranks of its sources, and whether the texts of the former fit the budget.
RelevantIds ==
    {i \in 1..Len(LastSearch.searchResults.matches) :
        LastSearch.searchResults.matches[i].score
            >= similarityThreshold(LastSearch.config)}
SourceIds ==
    {LastSearch.result.sources[i].id :
        i \in 1..Len(LastSearch.result.sources)}
WithText(ids) ==
    {i \in ids : LastSearch.searchResults.matches[i].len > 0}
RelevantFit ==
    LET reaches(m) == m.score >= similarityThreshold(LastSearch.config)
        relevant == SelectSeq(LastSearch.searchResults.matches, reaches)
    IN CharactersOf(relevant, Len(relevant))
           <= maxContextLength(LastSearch.config)
NoneRelevant ==
    /\ HasSearched
    /\ LastSearch.searchResults.present
    /\ LastSearch.searchResults.matches # << >>
    /\ RelevantIds = {}
    /\ minRelevantChunks(LastSearch.config) = 1

\* C29: when at least minRelevantChunks matches reach similarityThreshold,
\* the sources are the matches that reach it (those with a text, as far as
\* the budget goes); when the search returned matches, none reaches the
\* threshold and minRelevantChunks is 1, exactly one result is returned: the
\* top-ranked raw match, whatever its score.
C29_ScoreFilterWithFallback ==
    /\ (/\ HasSearched
        /\ LastSearch.searchResults.present
        /\ Cardinality(RelevantIds) >= minRelevantChunks(LastSearch.config))
       => /\ SourceIds \subseteq WithText(RelevantIds)
          /\ RelevantFit => SourceIds = WithText(RelevantIds)
    /\ NoneRelevant
       => /\ Len(LastSearch.result.sources) = 1
          /\ LastSearch.result.sources[1].id = 1

\* The same, the fallback for a top-ranked match that carries a text: the
\* code returns that match, and nothing when it carries none.
FallbackOnText ==
    /\ (/\ HasSearched
        /\ LastSearch.searchResults.present
        /\ Cardinality(RelevantIds) >= minRelevantChunks(LastSearch.config))
       => /\ SourceIds \subseteq WithText(RelevantIds)
          /\ RelevantFit => SourceIds = WithText(RelevantIds)
    /\ NoneRelevant
       => IF LastSearch.searchResults.matches[1].len > 0
          THEN /\ Len(LastSearch.result.sources) = 1
               /\ LastSearch.result.sources[1].id = 1
          ELSE /\ LastSearch.result.sources = << >>
               /\ LastSearch.result.relevantMatches = 1

\* The fallback returned the top-ranked match, whose score is below the
\* threshold; and the fallback returned nothing although a match has a text.
FallbackReturnsTop ==
    /\ NoneRelevant
    /\ Len(LastSearch.searchResults.matches) >= 2
    /\ Len(LastSearch.result.sources) = 1
FallbackReturnsNothing ==
    /\ NoneRelevant
    /\ WithText(1..Len(LastSearch.searchResults.matches)) # {}
    /\ LastSearch.result.sources = << >>

\* The pieces of a delta that are well-formed entries: two lines or more, the
\* first matching the pattern; and the FINAL ones of them.
WellFormed(content) ==
    {k \in 1..Len(content) :
        content[k].head /\ content[k].e.hdr \in Finalities}
FinalEntries(content) ==
    {content[k].e.id : k \in {j \in WellFormed(content) :
                                    content[j].e.hdr = "FINAL"}}
RunsOf(slot, runs) == {i \in 1..Len(runs) : runs[i].slot = slot}

\* C30: malformed entries are skipped and never fatal. When processContent
\* is given a batch, every entry of fewer than two lines or with a header that
\* does not match is dropped, processContent goes on, every well-formed
\* entry of the batch is parsed, and one orchestration is started for each
\* FINAL one of them; a batch of one malformed and two well-formed entries
\* yields two parsed utterances.
C30_MalformedSkipped ==
    [][\A slot \in Slots :
          (cycle[slot].pc = "close" /\ cycle'[slot].pc # "close") =>
              LET content == cycle[slot].content
                  parsed == {k \in 1..Len(content) :
                                IsParsedPiece(content[k])}
              IN /\ parsed = WellFormed(content)
                 /\ (Len(content) = MaxBatch
                         /\ Cardinality(WellFormed(content)) = MaxBatch - 1)
                        => Cardinality(parsed) = MaxBatch - 1
                 /\ {orchs'[i].trig : i \in RunsOf(slot, orchs')}
                        = FinalEntries(content)
                 /\ Cardinality(RunsOf(slot, orchs'))
                        = Cardinality(FinalEntries(content))
                 /\ cycle'[slot].pc =
                        IF FinalEntries(content) = {} THEN "idle" ELSE "orch"
      ]_vars

\* processContent has worked on a batch of MaxBatch entries, the first of
\* them malformed and the others well-formed and FINAL, and has started the
\* orchestrations of these.
C30_Witness ==
    \E slot \in Slots :
        /\ cycle[slot].pc = "orch"
        /\ Len(cycle[slot].content) = MaxBatch
        /\ ~IsParsedPiece(cycle[slot].content[1])
        /\ Cardinality(WellFormed(cycle[slot].content)) = MaxBatch - 1
        /\ Cardinality(FinalEntries(cycle[slot].content)) = MaxBatch - 1
        /\ Cardinality(RunsOf(slot, orchs)) = MaxBatch - 1

\* The utterance an entry is parsed back into is the one it was written for.
ParsedBack(w) ==
    LET parsed == ParseEntry(w.entry)
    IN /\ parsed.matched
       /\ parsed.text = w.utterance.text
       /\ parsed.finality = (IF w.utterance.isFinal THEN "FINAL" ELSE "INTERIM")
       /\ parsed.confidence = w.utterance.confidence
       /\ parsed.timestamp = w.utterance.timestamp

\* C31: the bytes saveQuery or processTranscript writes for a valid utterance
\* are parsed back by the entry parser into an utterance with the same text,
\* finality, confidence and timestamp; and after saveQuery(text, confidence,
\* true) the most recent FINAL transcript read from the file is that text.
C31_RoundTrip ==
    /\ \A i \in 1..Len(written) : ParsedBack(written[i])
    /\ (/\ written # << >>
        /\ written[Len(written)].by = "saveQuery"
        /\ written[Len(written)].utterance.isFinal)
       => getMostRecentTranscript(written)
              = written[Len(written)].utterance.text

\* What does hold: an entry processTranscript writes for a confidence other
\* than 0 is parsed back, its text trimmed; no entry of saveQuery is.
RoundTripOfTranscripts ==
    \A i \in 1..Len(written) :
        LET w == written[i]
            parsed == ParseEntry(w.entry)
        IN IF w.by = "processTranscript" /\ w.utterance.confidence # 0
           THEN /\ parsed.matched
                /\ parsed.text = Trim(w.utterance.text)
                /\ parsed.finality = "FINAL"
                /\ parsed.confidence = w.utterance.confidence
                /\ parsed.timestamp = w.utterance.timestamp
           ELSE ~parsed.matched

\* saveQuery has written a FINAL utterance after processTranscript wrote
\* another text, and the most recent FINAL transcript is that other text.
StaleMostRecent ==
    /\ Len(written) = 2
    /\ written[2].by = "saveQuery"
    /\ written[2].utterance.isFinal
    /\ written[1].by = "processTranscript"
    /\ getMostRecentTranscript(written) = Trim(written[1].utterance.text)
    /\ getMostRecentTranscript(written) # written[2].utterance.text

\* A text that is empty, not a string, or of white space only.
InvalidText(text) ==
    \/ text.type # "string"
    \/ \A i \in 1..Len(text.chars) : text.chars[i] \in Whitespace

\* C32: an append whose text is empty, not a string, or of white space only
\* is rejected: the store stays as it is and no orchestration is started.
C32_InvalidTextRejected ==
    [][(appendCall' # << >> /\ InvalidText(appendCall'[1].text)) =>
           /\ store' = store
           /\ direct' = {}
           /\ orchs' = orchs
           /\ appendCall'[1].outcome \in {"skipped", "thrown"}]_vars

\* saveQuery was called with a FINAL text of white space only, on a store
\* that holds an entry.
C32_Witness ==
    /\ appendCall # << >>
    /\ appendCall[1].by = "saveQuery"
    /\ appendCall[1].isFinal
    /\ appendCall[1].text.type = "string"
    /\ appendCall[1].text.chars # << >>
    /\ InvalidText(appendCall[1].text)
    /\ appendCall[1].outcome = "skipped"
    /\ store # << >>

\* C33: getAnalyses returns all records saveAnalysis has saved, ordered by
\* descending timestamp: of two records, the one saved later comes first.
C33_DescendingByTimestamp ==
    listed # << >> =>
        LET files == listed[1].files
            result == listed[1].result
        IN /\ Len(result) = Len(files)
           /\ \A i \in 1..Len(files) :
                 \E j \in 1..Len(result) : result[j] = files[i]
           /\ \A i, j \in 1..Len(result) :
                 i < j => result[i].timestamp >= result[j].timestamp

\* What holds: getAnalyses returns all records, in some order.
ListsAllRecords ==
    listed # << >> =>
        LET files == listed[1].files
            result == listed[1].result
        IN /\ Len(result) = Len(files)
           /\ \A i \in 1..Len(files) :
                 \E j \in 1..Len(result) : result[j] = files[i]

\* getAnalyses returned the record saved earlier before the one saved later.
AscendingListed ==
    /\ listed # << >>
    /\ Len(listed[1].result) = 2
    /\ listed[1].result[1].timestamp < listed[1].result[2].timestamp

\* C34: after SIGINT the process has exited no later than 10 s after the
\* signal, whatever becomes of the steps of cleanup.
C34_ForceExitWithinGrace ==
    (host.signalAt # 0 /\ now > host.signalAt + ShutdownTimeout)
        => host.exited

\* What holds: once the handler has armed its timer, the process exits within
\* 10 s of that moment.
ExitsAfterArming ==
    \A due \in host.timers : now > due => host.exited

\* More than 10 s after the only signal cleanup still waits for its first
\* step, no timer is armed and the process runs.
NeverArmed ==
    /\ host.signalAt # 0
    /\ ~host.again
    /\ now > host.signalAt + ShutdownTimeout
    /\ host.cleanup = "stopRecording"
    /\ host.caller = "sigint"
    /\ host.timers = {}
    /\ ~host.exited

\* The steps of a graceful shutdown, in their order.
ShutdownSteps == << "stopRecording", "stopWatching", "clearQueries",
                    "browser" >>

\* C35: a graceful shutdown performs its steps in order and reaches the last
\* one: when cleanup has returned and none of its external calls has
\* rejected, it has stopped the audio recording, stopped the watcher, cleared
\* the store and then attempted the browser cleanup; and its body has run at
\* most once, however often cleanup was requested.
C35_OrderedShutdown ==
    /\ host.bodies <= 1
    /\ \A i \in 1..Len(host.steps) : host.steps[i] = ShutdownSteps[i]
    /\ (host.cleanup = "returned" /\ ~host.rejected)
           => host.steps = ShutdownSteps

\* What holds: the body runs at most once, its steps are in order, and it
\* ends after clearing the store, the browser cleanup never attempted.
ShutdownUpToTheStore ==
    /\ host.bodies <= 1
    /\ \A i \in 1..Len(host.steps) : host.steps[i] = ShutdownSteps[i]
    /\ (host.cleanup = "returned" /\ ~host.rejected)
           => host.steps = SubSeq(ShutdownSteps, 1, Len(ShutdownSteps) - 1)

\* cleanup was requested twice and has returned without a rejected call.
RequestedAgain ==
    /\ host.again
    /\ host.cleanup = "returned"
    /\ ~host.rejected
    /\ host.bodies = 1

\* C36: without PINECONE_INDEX_NAME QueryService.initialize rejects, which is
\* fatal to start: the process starts neither the audio recording nor the
\* file watcher.
C36_MissingIndexNameFatal ==
    ~host.indexName =>
        /\ host.start \in {"tts", "query", "failed"}
        /\ ~host.isRecording
        /\ ~host.watching

\* Without the name, queryService.initialize has rejected, cleanup has
\* returned and the process has exited.
C36_Witness ==
    /\ ~host.indexName
    /\ host.start = "failed"
    /\ host.cleanup = "returned"
    /\ host.caller = "start"
    /\ host.exited

\* C37: isPlayingTTS is true at every moment at which a synthesizeAndPlay call
\* is rendering speech, whichever service has started it, the QueryService of
\* the watcher included.
C37_FlagCoversSpeech ==
    \A s \in Services : procs[s].pc = "speak" => isPlayingTTS

\* The flag covers the speech of the service MeetAgent has connected.
FlagCoversAgentSpeech == procs["agent"].pc = "speak" => isPlayingTTS

\* The QueryService of the watcher is speaking with the flag down.
WatcherSpeaksUnflagged == procs["watcher"].pc = "speak" /\ ~isPlayingTTS

\* Entry id is in the file and final.
FinalInStore(id) ==
    \E i \in 1..Len(store) : store[i].id = id /\ store[i].hdr = "FINAL"

\* The watcher has started a run for entry id.
Orchestrated(id) == \E i \in 1..Len(orchs) : orchs[i].trig = id

\* C38: a FINAL entry appended while a cycle is in progress, whose 'change'
\* event the handler has skipped, is still eventually read and orchestrated,
\* without any further append.
C38_SkippedEntryOrchestrated ==
    \A id \in 1..MaxAppends :
        (id \in changes.skipped /\ FinalInStore(id)) ~> Orchestrated(id)

\* A FINAL entry whose event the handler has skipped lies after the offset
\* with no cycle in progress and no event to come.
SkippedAndLeftBehind ==
    \E id \in changes.skipped :
        /\ FinalInStore(id)
        /\ ~Orchestrated(id)
        /\ changes.pending = {}
        /\ \A slot \in Slots : cycle[slot].pc = "idle"
        /\ lastProcessedSize < SizeOf(store)

\* The bytes of a skipped entry stay in the file, and a cycle that ends leaves
\* the offset within the file.
SkippedEntryKept ==
    (truncated = FALSE) =>
        /\ \A id \in changes.skipped : \E i \in 1..Len(store) : store[i].id = id
        /\ lastProcessedSize <= SizeOf(store)

\* The guarded cycle, that of the 'change' handler, ends in this step.
GuardedCycleEnds == cycle["chg"].pc # "idle" /\ cycle'["chg"].pc = "idle"

\* C39: isProcessing is cleared at the end of every guarded cycle, whether it
\* ends in success, in a read error or with a failed orchestration; when every
\* call the watcher awaits returns, isProcessing set is always followed by
\* isProcessing cleared.
C39_FlagAlwaysCleared ==
    /\ [][GuardedCycleEnds => ~isProcessing']_vars
    /\ isProcessing ~> ~isProcessing

\* A guarded cycle has ended with the flag cleared after a run of its delta
\* was rejected.
C39_Witness ==
    /\ ~isProcessing
    /\ cycle["chg"].pc = "idle"
    /\ \E i \in 1..Len(orchs) : orchs[i].slot = "chg" /\ orchs[i].st = "err"

\* startWatching is called in this step.
WatchingStarts == ~watcher /\ watcher'

\* C40: when watching starts and the file already holds content, the
\* startWatching call itself starts a cycle over the existing content, before
\* any 'change' event.
C40_ExistingContentProcessed ==
    [][(WatchingStarts /\ SizeOf(store) > 0) =>
          /\ cycle'["init"].pc = "open"
          /\ cycle'["init"].from = 0
          /\ cycle'["init"].cur = SizeOf(store)]_vars

\* The startWatching call reads what has been appended since initialize took
\* the size of the file.
AppendedSinceInitializeProcessed ==
    [][(WatchingStarts /\ SizeOf(store) > lastProcessedSize) =>
          /\ cycle'["init"].pc = "open"
          /\ cycle'["init"].from = lastProcessedSize
          /\ cycle'["init"].cur = SizeOf(store)]_vars

\* The watcher is watching a file whose FINAL entry, there before initialize,
\* has not been read: no cycle is in progress, no run has been started and no
\* event is to come.
ExistingContentLeft ==
    /\ watcher
    /\ lastProcessedSize = SizeOf(store)
    /\ \E i \in 1..Len(store) : store[i].hdr = "FINAL"
    /\ orchs = << >>
    /\ changes = NoChanges
    /\ \A slot \in Slots : cycle[slot].pc = "idle"

====
